---- MODULE Spec2Model ----
(***************************************************************************)
(* kobo-db-tools: reconstruction of reading sessions from the              *)
(* AnalyticsEvents log (Parser::parse_events, Parser::parse_correlated),   *)
(* correlation of auxiliary events to sessions, and charge cycles.         *)
(*                                                                         *)
(* Timestamps are seconds (DateTime<Utc> on a one-second grid).  Option<T> *)
(* is a sequence of length 0 (None) or 1 (Some).  Strings that the code    *)
(* parses are sequences of one-character strings.                          *)
(***************************************************************************)
EXTENDS Integers, Sequences, FiniteSets, TLC

VARIABLES
    pc,                   \* "scan" | "done" | "failed": position in the entry point
    entry,                \* "parse_events" | "parse_correlated"
    option,               \* the ParseOption (All for parse_correlated)
    rows_read,            \* the rows the scan loop has fetched so far
    row,                  \* Option<Row>: the row of the current iteration
    next_uuid,            \* the next Uuid::new_v4() value
    current_session,      \* Option<ReadingSession>
    sessions_vec,         \* ReadingSessions (Vec<ReadingSession>)
    terms_map,            \* parse_events: HashMap<DictionaryWord, usize>
    dictionary_events,    \* parse_correlated: Vec<TimedDictionaryWord>
    brightness_events,    \* Vec<BrightnessEvent>
    natural_light_events, \* Vec<BrightnessEvent>
    app_events,           \* Vec<AppEvent>
    volume_ids_to_query,  \* HashSet<String>
    books_from_events,    \* HashMap<String, Book>, as title -> title
    errors,               \* the event ids reported on stderr, in order
    analysis,             \* the value returned: EventAnalysis or CorrelatedAnalysis
    conn,                 \* db: the Connection (sqlite_master triggers, AnalyticsEvents Ids)
    db_op,                \* db: the last call made on conn
    db_arg,               \* db: the row Ids that call named (none for install, remove)
    db_result,            \* db: what that call returned
    db_calls,             \* db: the number of calls made on conn
    events_log,           \* caller: the rows of AnalyticsEvents both entry points are run on
    first_result          \* caller: Option of what parse_events returned on events_log

vars == << pc, entry, option, rows_read, row, next_uuid, current_session, sessions_vec,
           terms_map, dictionary_events, brightness_events, natural_light_events,
           app_events, volume_ids_to_query, books_from_events, errors, analysis,
           conn, db_op, db_arg, db_result, db_calls, events_log, first_result >>

db_vars == << conn, db_op, db_arg, db_result, db_calls >>

caller_vars == << events_log, first_result >>

parser_vars == << pc, entry, option, rows_read, row, next_uuid, current_session,
                  sessions_vec, terms_map, dictionary_events, brightness_events,
                  natural_light_events, app_events, volume_ids_to_query,
                  books_from_events, errors, analysis >>

scan_vars == << rows_read, row, next_uuid, current_session, sessions_vec, terms_map,
                dictionary_events, brightness_events, natural_light_events,
                app_events, volume_ids_to_query, books_from_events, errors >>

----------------------------------------------------------------------------
(* Option<T> *)

None == << >>

Some(x) == << x >>

IsSome(o) == Len(o) = 1

IsNone(o) == Len(o) = 0

Unwrap(o) == o[1]

UnwrapOr(o, d) == IF IsSome(o) THEN o[1] ELSE d

----------------------------------------------------------------------------
(* Sequence helpers *)

RECURSIVE SumSeq(_, _)
\* Iterator::sum over s[i..].
SumSeq(s, i) == IF i > Len(s) THEN 0 ELSE s[i] + SumSeq(s, i + 1)

RECURSIVE Flatten(_, _)
\* Iterator::flat_map over a sequence of sequences.
Flatten(ss, i) == IF i > Len(ss) THEN << >> ELSE ss[i] \o Flatten(ss, i + 1)

----------------------------------------------------------------------------
(* Payload decoding *)

Digits == << "0", "1", "2", "3", "4", "5", "6", "7", "8", "9" >>

IsDigit(c) == \E d \in 1..10 : Digits[d] = c

DigitVal(c) == (CHOOSE d \in 1..10 : Digits[d] = c) - 1

RECURSIVE DecimalValue(_, _)
DecimalValue(s, acc) ==
    IF s = << >> THEN acc ELSE DecimalValue(Tail(s), acc * 10 + DigitVal(Head(s)))

RECURSIVE DecimalText(_)
\* The decimal text of a natural number (what the log's writer stores).
DecimalText(n) ==
    IF n < 10 THEN << Digits[n + 1] >>
    ELSE Append(DecimalText(n \div 10), Digits[(n % 10) + 1])

U8Max == 255

\* str::parse::<u8>(): an optional '+', then one or more decimal digits, and
\* the value must fit in 8 bits; anything else is Err (None here).
ParseU8(s) ==
    LET body == IF s # << >> /\ Head(s) = "+" THEN Tail(s) ELSE s
    IN  IF body = << >> \/ \E i \in 1..Len(body) : ~IsDigit(body[i])
        THEN None
        ELSE IF DecimalValue(body, 0) > U8Max THEN None
             ELSE Some(DecimalValue(body, 0))

\* attr.progress.parse::<u8>().unwrap_or(0)
ProgressOf(attr) == UnwrapOr(ParseU8(attr.progress), 0)

\* serde_json::from_str into the typed payload: Err (None) when the text is
\* malformed or lacks a required field.
from_json(payload) == IF payload.ok THEN Some(payload) ELSE None

----------------------------------------------------------------------------
(* ReadingSession *)

ReadingSessionNew(uuid, ts, start_progress, book_title, volume_id, open_content_id) ==
    [ id                 |-> uuid,
      open_content_id    |-> open_content_id,
      leave_content_id   |-> None,
      time_start         |-> ts,
      time_end           |-> None,
      volume_id          |-> volume_id,
      start_progress     |-> start_progress,
      end_progress       |-> None,
      book_title         |-> book_title,
      button_press_count |-> None,
      seconds_read       |-> None,
      pages_turned       |-> None ]

\* Mutant of CompletionOk: the end_progress > 100 test is missing.
CompletionOk_NoUpperBound(self, time_end, end_progress) ==
    /\ ~(self.time_start > time_end)
    /\ ~(self.start_progress > 100 \/ end_progress < self.start_progress)

\* The guards of complete_session: Ok iff none of them returns Err.
CompletionOk(self, time_end, end_progress) ==
    /\ ~(self.time_start > time_end)
    /\ ~(end_progress > 100 \/ self.start_progress > 100
            \/ end_progress < self.start_progress)

\* Mutant of complete_session: seconds_read and pages_turned are swapped.
complete_session_SwappedCounters(self, time_end, end_progress, button_press_count, seconds_read, pages_turned, leave_content_id) ==
    IF CompletionOk(self, time_end, end_progress)
    THEN [ ok |-> TRUE,
           session |-> [ self EXCEPT !.time_end = Some(time_end),
                                     !.end_progress = Some(end_progress),
                                     !.button_press_count = Some(button_press_count),
                                     !.seconds_read = Some(pages_turned),
                                     !.pages_turned = Some(seconds_read),
                                     !.leave_content_id = Some(leave_content_id) ] ]
    ELSE [ ok |-> FALSE, session |-> self ]

\* Mutant of complete_session: the session ends one second after the leave.
complete_session_LateEnd(self, time_end, end_progress, button_press_count, seconds_read, pages_turned, leave_content_id) ==
    IF CompletionOk(self, time_end, end_progress)
    THEN [ ok |-> TRUE,
           session |-> [ self EXCEPT !.time_end = Some(time_end + 1),
                                     !.end_progress = Some(end_progress),
                                     !.button_press_count = Some(button_press_count),
                                     !.seconds_read = Some(seconds_read),
                                     !.pages_turned = Some(pages_turned),
                                     !.leave_content_id = Some(leave_content_id) ] ]
    ELSE [ ok |-> FALSE, session |-> self ]

\* complete_session: [ok, session]; on Err self is returned untouched.
complete_session(self, time_end, end_progress, button_press_count, seconds_read, pages_turned, leave_content_id) ==
    IF CompletionOk(self, time_end, end_progress)
    THEN [ ok |-> TRUE,
           session |-> [ self EXCEPT !.time_end = Some(time_end),
                                     !.end_progress = Some(end_progress),
                                     !.button_press_count = Some(button_press_count),
                                     !.seconds_read = Some(seconds_read),
                                     !.pages_turned = Some(pages_turned),
                                     !.leave_content_id = Some(leave_content_id) ] ]
    ELSE [ ok |-> FALSE, session |-> self ]

is_complete(self) == IsSome(self.end_progress)

\* Mutant of handle_reading_session_event: a LeaveContent with no open session
\* is accepted silently (Ok(None)).
handle_reading_session_event_SilentOrphanLeave(event_type, event_id, cur, ts, progress, attr, metrics, uuid) ==
    IF event_type = "OpenContent"
    THEN [ cur |-> Some(ReadingSessionNew(uuid, ts, progress, attr.title,
                                          attr.volumeid, event_id)),
           out |-> None, err |-> FALSE ]
    ELSE IF event_type = "LeaveContent"
    THEN IF IsNone(cur)
         THEN [ cur |-> None, out |-> None, err |-> FALSE ]
         ELSE IF IsNone(metrics)
         THEN [ cur |-> None, out |-> None, err |-> TRUE ]
         ELSE LET m == Unwrap(metrics)
                  r == complete_session(Unwrap(cur), ts, progress,
                                        m.button_press_count, m.seconds_read,
                                        m.pages_turned, event_id)
              IN  IF r.ok
                  THEN [ cur |-> None, out |-> Some(r.session), err |-> FALSE ]
                  ELSE [ cur |-> Some(r.session), out |-> None, err |-> TRUE ]
    ELSE [ cur |-> cur, out |-> None, err |-> TRUE ]

\* Mutant of handle_reading_session_event: the session taken from
\* current_session is not put back when completion fails.
handle_reading_session_event_NoRestore(event_type, event_id, cur, ts, progress, attr, metrics, uuid) ==
    IF event_type = "OpenContent"
    THEN [ cur |-> Some(ReadingSessionNew(uuid, ts, progress, attr.title,
                                          attr.volumeid, event_id)),
           out |-> None, err |-> FALSE ]
    ELSE IF event_type = "LeaveContent"
    THEN IF IsNone(cur)
         THEN [ cur |-> None, out |-> None, err |-> TRUE ]
         ELSE IF IsNone(metrics)
         THEN [ cur |-> None, out |-> None, err |-> TRUE ]
         ELSE LET m == Unwrap(metrics)
                  r == complete_session(Unwrap(cur), ts, progress,
                                        m.button_press_count, m.seconds_read,
                                        m.pages_turned, event_id)
              IN  IF r.ok
                  THEN [ cur |-> None, out |-> Some(r.session), err |-> FALSE ]
                  ELSE [ cur |-> None, out |-> None, err |-> TRUE ]
    ELSE [ cur |-> cur, out |-> None, err |-> TRUE ]

\* Mutant of handle_reading_session_event: an OpenContent flushes the session
\* it replaces into the output.
handle_reading_session_event_FlushReplaced(event_type, event_id, cur, ts, progress, attr, metrics, uuid) ==
    IF event_type = "OpenContent"
    THEN [ cur |-> Some(ReadingSessionNew(uuid, ts, progress, attr.title,
                                          attr.volumeid, event_id)),
           out |-> cur, err |-> FALSE ]
    ELSE IF event_type = "LeaveContent"
    THEN IF IsNone(cur)
         THEN [ cur |-> None, out |-> None, err |-> TRUE ]
         ELSE IF IsNone(metrics)
         THEN [ cur |-> None, out |-> None, err |-> TRUE ]
         ELSE LET m == Unwrap(metrics)
                  r == complete_session(Unwrap(cur), ts, progress,
                                        m.button_press_count, m.seconds_read,
                                        m.pages_turned, event_id)
              IN  IF r.ok
                  THEN [ cur |-> None, out |-> Some(r.session), err |-> FALSE ]
                  ELSE [ cur |-> Some(r.session), out |-> None, err |-> TRUE ]
    ELSE [ cur |-> cur, out |-> None, err |-> TRUE ]

\* Mutant of handle_reading_session_event: a completed session stays the
\* current one (no take()).
handle_reading_session_event_KeepsOpen(event_type, event_id, cur, ts, progress, attr, metrics, uuid) ==
    IF event_type = "OpenContent"
    THEN [ cur |-> Some(ReadingSessionNew(uuid, ts, progress, attr.title,
                                          attr.volumeid, event_id)),
           out |-> None, err |-> FALSE ]
    ELSE IF event_type = "LeaveContent"
    THEN IF IsNone(cur)
         THEN [ cur |-> None, out |-> None, err |-> TRUE ]
         ELSE IF IsNone(metrics)
         THEN [ cur |-> None, out |-> None, err |-> TRUE ]
         ELSE LET m == Unwrap(metrics)
                  r == complete_session(Unwrap(cur), ts, progress,
                                        m.button_press_count, m.seconds_read,
                                        m.pages_turned, event_id)
              IN  IF r.ok
                  THEN [ cur |-> cur, out |-> Some(r.session), err |-> FALSE ]
                  ELSE [ cur |-> Some(r.session), out |-> None, err |-> TRUE ]
    ELSE [ cur |-> cur, out |-> None, err |-> TRUE ]

\* handle_reading_session_event: [cur, out, err] = the new current_session,
\* the Ok(Some(session)) value if any, and whether Err was returned.
handle_reading_session_event(event_type, event_id, cur, ts, progress, attr, metrics, uuid) ==
    IF event_type = "OpenContent"
    THEN [ cur |-> Some(ReadingSessionNew(uuid, ts, progress, attr.title,
                                          attr.volumeid, event_id)),
           out |-> None, err |-> FALSE ]
    ELSE IF event_type = "LeaveContent"
    THEN IF IsNone(cur)
         THEN [ cur |-> None, out |-> None, err |-> TRUE ]
         ELSE IF IsNone(metrics)
         THEN [ cur |-> None, out |-> None, err |-> TRUE ]
         ELSE LET m == Unwrap(metrics)
                  r == complete_session(Unwrap(cur), ts, progress,
                                        m.button_press_count, m.seconds_read,
                                        m.pages_turned, event_id)
              IN  IF r.ok
                  THEN [ cur |-> None, out |-> Some(r.session), err |-> FALSE ]
                  ELSE [ cur |-> Some(r.session), out |-> None, err |-> TRUE ]
    ELSE [ cur |-> cur, out |-> None, err |-> TRUE ]

----------------------------------------------------------------------------
(* The database: tables the parser only reads *)

\* content rows with ContentType = 6, as ContentID -> Title.
ContentTable == [ v \in {"book1"} |-> "Book One" ]

\* get_bookmarks(db): the Bookmark table.
get_bookmarks == << [ id |-> "bookmark1", volume_id |-> "book1" ] >>

\* get_books_by_volume_id: volume id -> title, for the ids the query finds.
get_books_by_volume_id(volume_ids) ==
    [ v \in (volume_ids \cap DOMAIN ContentTable) |-> ContentTable[v] ]

\* HashMap::extend: the entries of `more` replace those of `base`.
MapExtend(base, more) ==
    [ k \in (DOMAIN base \cup DOMAIN more) |->
        IF k \in DOMAIN more THEN more[k] ELSE base[k] ]

\* Mutant of BackfillTitles: a session whose volume id is not resolved loses
\* its title.
BackfillTitles_ClearMissing(sessions, books) ==
    [ i \in 1..Len(sessions) |->
        IF IsSome(sessions[i].volume_id) /\ Unwrap(sessions[i].volume_id) \in DOMAIN books
        THEN [ sessions[i] EXCEPT !.book_title = Some(books[Unwrap(sessions[i].volume_id)]) ]
        ELSE [ sessions[i] EXCEPT !.book_title = None ] ]

\* Mutant of BackfillTitles: a resolved session also loses its volume id.
BackfillTitles_ResetVolume(sessions, books) ==
    [ i \in 1..Len(sessions) |->
        IF IsSome(sessions[i].volume_id) /\ Unwrap(sessions[i].volume_id) \in DOMAIN books
        THEN [ sessions[i] EXCEPT !.book_title = Some(books[Unwrap(sessions[i].volume_id)]),
                                  !.volume_id = None ]
        ELSE sessions[i] ]

\* The back-fill loop over sessions_vec.get_mut_sessions().
BackfillTitles(sessions, books) ==
    [ i \in 1..Len(sessions) |->
        IF IsSome(sessions[i].volume_id) /\ Unwrap(sessions[i].volume_id) \in DOMAIN books
        THEN [ sessions[i] EXCEPT !.book_title = Some(books[Unwrap(sessions[i].volume_id)]) ]
        ELSE sessions[i] ]

----------------------------------------------------------------------------
(* ParseOption *)

ParseOptions == { "All", "ReadingSessions", "DictionaryLookups", "BrightnessHistory",
                  "NaturalLightHistory", "Bookmarks", "AppStart", "PluggedIn" }

\* Mutant of event_types_for_option: AppStart and PluggedIn both select the
\* two app event types.
event_types_for_option_AppBoth(opt) ==
    CASE opt = "All" -> { "OpenContent", "LeaveContent", "DictionaryLookup",
                          "BrightnessAdjusted", "NaturalLightAdjusted",
                          "AppStart", "PluggedIn" }
      [] opt = "ReadingSessions" -> { "OpenContent", "LeaveContent" }
      [] opt = "DictionaryLookups" -> { "DictionaryLookup" }
      [] opt = "BrightnessHistory" -> { "BrightnessAdjusted" }
      [] opt = "NaturalLightHistory" -> { "NaturalLightAdjusted" }
      [] opt \in { "AppStart", "PluggedIn" } -> { "AppStart", "PluggedIn" }
      [] opt = "Bookmarks" -> { }

event_types_for_option(opt) ==
    CASE opt = "All" -> { "OpenContent", "LeaveContent", "DictionaryLookup",
                          "BrightnessAdjusted", "NaturalLightAdjusted",
                          "AppStart", "PluggedIn" }
      [] opt = "ReadingSessions" -> { "OpenContent", "LeaveContent" }
      [] opt = "DictionaryLookups" -> { "DictionaryLookup" }
      [] opt = "BrightnessHistory" -> { "BrightnessAdjusted" }
      [] opt = "NaturalLightHistory" -> { "NaturalLightAdjusted" }
      [] opt = "AppStart" -> { "AppStart" }
      [] opt = "PluggedIn" -> { "PluggedIn" }
      [] opt = "Bookmarks" -> { }

include_bookmarks(opt) == opt \in { "All", "Bookmarks" }

include_sessions(opt) == opt \in { "All", "ReadingSessions" }

include_dictionary(opt) == opt \in { "All", "DictionaryLookups" }

include_brightness(opt) == opt \in { "All", "BrightnessHistory" }

include_natural_light(opt) == opt \in { "All", "NaturalLightHistory" }

include_app_events(opt) == opt \in { "All", "AppStart", "PluggedIn" }

----------------------------------------------------------------------------
(* Correlation *)

TOLERANCE_SECONDS == 30

CorrelatedSessionNew(session) ==
    [ session |-> session, dictionary |-> << >>, brightness |-> << >>,
      natural_light |-> << >>, app_events |-> << >> ]

DictionaryWordNew(term, lang, session_id) ==
    [ term |-> term, lang |-> lang, session_id |-> session_id ]

\* Mutant of session_contains: the bounds of the window are exclusive.
session_contains_Exclusive(session, ts, tolerance) ==
    IF IsSome(session.time_end)
    THEN ts > session.time_start - tolerance /\ ts < Unwrap(session.time_end) + tolerance
    ELSE FALSE

session_contains(session, ts, tolerance) ==
    IF IsSome(session.time_end)
    THEN ts >= session.time_start - tolerance /\ ts <= Unwrap(session.time_end) + tolerance
    ELSE FALSE

\* Mutant of find_session_index: the last index whose session contains ts.
find_session_index_Last(sessions, ts, tolerance) ==
    LET hits == { i \in 1..Len(sessions) :
                    session_contains(sessions[i].session, ts, tolerance) }
    IN  IF hits = { } THEN None
        ELSE Some(CHOOSE i \in hits : \A j \in hits : i >= j)

\* Iterator::position: the first index whose session contains ts, or None.
find_session_index(sessions, ts, tolerance) ==
    LET hits == { i \in 1..Len(sessions) :
                    session_contains(sessions[i].session, ts, tolerance) }
    IN  IF hits = { } THEN None
        ELSE Some(CHOOSE i \in hits : \A j \in hits : i <= j)

\* Mutant of StampedWord: the word is pushed without the session's id.
StampedWord_NoId(timed, session_id) ==
    DictionaryWordNew(timed.word.term, timed.word.lang, None)

StampedWord(timed, session_id) ==
    DictionaryWordNew(timed.word.term, timed.word.lang, Some(session_id))

UnstampedWord(timed) == DictionaryWordNew(timed.word.term, timed.word.lang, None)

\* What a loop pushes into the matched session's collection `field`.
MatchedItem(field, event, session_id) ==
    IF field = "dictionary" THEN StampedWord(event, session_id) ELSE event

\* What a loop pushes into the orphan collection `field`.
OrphanItem(field, event) ==
    IF field = "dictionary" THEN UnstampedWord(event) ELSE event

RECURSIVE CorrelateLoop(_, _, _, _, _)
\* One of the four correlation loops of parse_correlated, from events[i] on:
\* [sessions, orphans].
CorrelateLoop(events, i, sessions, orphans, field) ==
    IF i > Len(events) THEN [ sessions |-> sessions, orphans |-> orphans ]
    ELSE LET found == find_session_index(sessions, events[i].timestamp,
                                         TOLERANCE_SECONDS)
         IN  IF IsSome(found)
             THEN LET index == Unwrap(found)
                      item == MatchedItem(field, events[i], sessions[index].session.id)
                  IN  CorrelateLoop(events, i + 1,
                          [ sessions EXCEPT ![index][field] = Append(@, item) ],
                          orphans, field)
             ELSE CorrelateLoop(events, i + 1, sessions,
                          Append(orphans, OrphanItem(field, events[i])), field)

\* Mutant of CorrelateAll: the brightness loop starts again from the sessions
\* the dictionary loop was given.
CorrelateAll_StaleSessions(sessions, dict_events, bright_events, light_events, apps) ==
    LET d == CorrelateLoop(dict_events, 1, sessions, << >>, "dictionary")
        b == CorrelateLoop(bright_events, 1, sessions, << >>, "brightness")
        n == CorrelateLoop(light_events, 1, b.sessions, << >>, "natural_light")
        a == CorrelateLoop(apps, 1, n.sessions, << >>, "app_events")
    IN  [ sessions |-> a.sessions,
          orphans  |-> [ dictionary |-> d.orphans, brightness |-> b.orphans,
                         natural_light |-> n.orphans, app_events |-> a.orphans ] ]

\* The four loops in the order of the code: [sessions, orphans: OrphanEvents].
CorrelateAll(sessions, dict_events, bright_events, light_events, apps) ==
    LET d == CorrelateLoop(dict_events, 1, sessions, << >>, "dictionary")
        b == CorrelateLoop(bright_events, 1, d.sessions, << >>, "brightness")
        n == CorrelateLoop(light_events, 1, b.sessions, << >>, "natural_light")
        a == CorrelateLoop(apps, 1, n.sessions, << >>, "app_events")
    IN  [ sessions |-> a.sessions,
          orphans  |-> [ dictionary |-> d.orphans, brightness |-> b.orphans,
                         natural_light |-> n.orphans, app_events |-> a.orphans ] ]

----------------------------------------------------------------------------
(* Charge cycles *)

AppEventNew(kind, timestamp, attributes) ==
    [ kind |-> kind, timestamp |-> timestamp, attributes |-> attributes ]

\* Mutant of session_in_cycle: the end of the cycle is inclusive.
session_in_cycle_Closed(session, start, end) ==
    IF IsSome(end)
    THEN session.time_start >= start /\ session.time_start <= Unwrap(end)
    ELSE session.time_start >= start

\* Mutant of session_in_cycle: the end of the cycle is ignored.
session_in_cycle_NoEnd(session, start, end) == session.time_start >= start

session_in_cycle(session, start, end) ==
    IF IsSome(end)
    THEN session.time_start >= start /\ session.time_start < Unwrap(end)
    ELSE session.time_start >= start

app_event_in_cycle(event, start, end) ==
    IF IsSome(end)
    THEN event.timestamp >= start /\ event.timestamp < Unwrap(end)
    ELSE event.timestamp >= start

compute_cycle_metrics(sessions, apps) ==
    [ total_seconds_read |->
          SumSeq([ i \in 1..Len(sessions) |-> UnwrapOr(sessions[i].session.seconds_read, 0) ], 1),
      total_pages |->
          SumSeq([ i \in 1..Len(sessions) |-> UnwrapOr(sessions[i].session.pages_turned, 0) ], 1),
      total_button_presses |->
          SumSeq([ i \in 1..Len(sessions) |->
                      UnwrapOr(sessions[i].session.button_press_count, 0) ], 1),
      dictionary_lookups |->
          SumSeq([ i \in 1..Len(sessions) |-> Len(sessions[i].dictionary) ], 1),
      brightness_events |->
          SumSeq([ i \in 1..Len(sessions) |->
                      Len(sessions[i].brightness) + Len(sessions[i].natural_light) ], 1),
      app_starts |->
          Len(SelectSeq(apps, LAMBDA e : e.kind = "AppStart")) ]

\* Insert e after every element whose timestamp is <= its own (stable).
InsertByTimestamp(sorted, e) ==
    LET before == SelectSeq(sorted, LAMBDA x : x.timestamp <= e.timestamp)
        after  == SelectSeq(sorted, LAMBDA x : x.timestamp > e.timestamp)
    IN  before \o << e >> \o after

\* Mutant of SortByTimestamp: the events are left in the order they came.
SortByTimestamp_Unsorted(s, acc) == acc \o s

RECURSIVE SortByTimestamp(_, _)
\* sort_by_key(|event| event.timestamp) from s[i] on, into acc.
SortByTimestamp(s, acc) ==
    IF s = << >> THEN acc
    ELSE SortByTimestamp(Tail(s), InsertByTimestamp(acc, Head(s)))

\* Mutant of build_charge_cycles: the metrics are computed over every session
\* and app event.
build_charge_cycles_GlobalMetrics(sessions, apps) ==
    LET plug_events ==
            SortByTimestamp(SelectSeq(apps, LAMBDA e : e.kind = "PluggedIn"), << >>)
    IN  [ index \in 1..Len(plug_events) |->
            LET start == plug_events[index].timestamp
                end == IF index + 1 <= Len(plug_events)
                       THEN Some(plug_events[index + 1].timestamp) ELSE None
                cycle_sessions ==
                    SelectSeq(sessions, LAMBDA cs : session_in_cycle(cs.session, start, end))
                cycle_app_events ==
                    SelectSeq(apps, LAMBDA e : app_event_in_cycle(e, start, end))
            IN  [ start |-> start, end |-> end, sessions |-> cycle_sessions,
                  app_events |-> cycle_app_events,
                  metrics |-> compute_cycle_metrics(sessions, apps) ] ]

\* Mutant of build_charge_cycles: without any PluggedIn event one open-ended
\* cycle holds everything (and with some, the metrics are global).
build_charge_cycles_Implicit(sessions, apps) ==
    IF SelectSeq(apps, LAMBDA e : e.kind = "PluggedIn") = << >>
    THEN << [ start |-> 0, end |-> None, sessions |-> sessions, app_events |-> apps,
              metrics |-> compute_cycle_metrics(sessions, apps) ] >>
    ELSE build_charge_cycles_GlobalMetrics(sessions, apps)

build_charge_cycles(sessions, apps) ==
    LET plug_events ==
            SortByTimestamp(SelectSeq(apps, LAMBDA e : e.kind = "PluggedIn"), << >>)
    IN  [ index \in 1..Len(plug_events) |->
            LET start == plug_events[index].timestamp
                end == IF index + 1 <= Len(plug_events)
                       THEN Some(plug_events[index + 1].timestamp) ELSE None
                cycle_sessions ==
                    SelectSeq(sessions, LAMBDA cs : session_in_cycle(cs.session, start, end))
                cycle_app_events ==
                    SelectSeq(apps, LAMBDA e : app_event_in_cycle(e, start, end))
            IN  [ start |-> start, end |-> end, sessions |-> cycle_sessions,
                  app_events |-> cycle_app_events,
                  metrics |-> compute_cycle_metrics(cycle_sessions, cycle_app_events) ] ]

SecondsPerDay == 86400

\* DateTime::date_naive, as days since the epoch.
date_naive(ts) == ts \div SecondsPerDay

\* Mutant of AppStartCountsByDay: PluggedIn events are counted too.
AppStartCountsByDay_AllKinds(all_app_events) ==
    LET days == { date_naive(all_app_events[i].timestamp) : i \in 1..Len(all_app_events) }
    IN  [ d \in days |->
            Cardinality({ i \in 1..Len(all_app_events) :
                            date_naive(all_app_events[i].timestamp) = d }) ]

\* The app_start_counts_by_day loop: day -> number of AppStart events.
AppStartCountsByDay(all_app_events) ==
    LET starts == SelectSeq(all_app_events, LAMBDA e : e.kind = "AppStart")
        days == { date_naive(starts[i].timestamp) : i \in 1..Len(starts) }
    IN  [ d \in days |->
            Cardinality({ i \in 1..Len(starts) : date_naive(starts[i].timestamp) = d }) ]

\* Mutant of CorrelatedAnalysisOf: the cycles and the daily counts see only
\* the app events no session holds.
CorrelatedAnalysisOf_OrphanAppsOnly(sessions, dict_events, bright_events, light_events, apps, volume_ids, event_books) ==
    LET books_from_db == MapExtend(get_books_by_volume_id(volume_ids), event_books)
        titled == BackfillTitles(sessions, books_from_db)
        correlated == [ i \in 1..Len(titled) |-> CorrelatedSessionNew(titled[i]) ]
        c == CorrelateAll(correlated, dict_events, bright_events, light_events, apps)
        all_app_events == c.orphans.app_events
    IN  [ sessions |-> c.sessions,
          orphans |-> c.orphans,
          cycles |-> build_charge_cycles(c.sessions, all_app_events),
          app_start_counts_by_day |-> AppStartCountsByDay(all_app_events) ]

\* parse_correlated after the scan loop: the CorrelatedAnalysis it returns.
CorrelatedAnalysisOf(sessions, dict_events, bright_events, light_events, apps, volume_ids, event_books) ==
    LET books_from_db == MapExtend(get_books_by_volume_id(volume_ids), event_books)
        titled == BackfillTitles(sessions, books_from_db)
        correlated == [ i \in 1..Len(titled) |-> CorrelatedSessionNew(titled[i]) ]
        c == CorrelateAll(correlated, dict_events, bright_events, light_events, apps)
        all_app_events ==
            Flatten([ i \in 1..Len(c.sessions) |-> c.sessions[i].app_events ], 1)
                \o c.orphans.app_events
    IN  [ sessions |-> c.sessions,
          orphans |-> c.orphans,
          cycles |-> build_charge_cycles(c.sessions, all_app_events),
          app_start_counts_by_day |-> AppStartCountsByDay(all_app_events) ]

EventAnalysisDefault ==
    [ sessions |-> None, terms |-> None, brightness_history |-> None,
      natural_light_history |-> None, bookmarks |-> None, books |-> None,
      app_events |-> None ]

\* Mutant of EventAnalysisOf: the sessions are returned without the title
\* back-fill.
EventAnalysisOf_NoBackfill(opt, sessions, terms, bright_events, light_events, apps, volume_ids, event_books) ==
    LET a0 == [ EventAnalysisDefault EXCEPT
                  !.bookmarks = IF include_bookmarks(opt) THEN Some(get_bookmarks)
                                ELSE None ]
        books_from_db == MapExtend(get_books_by_volume_id(volume_ids), event_books)
    IN  IF event_types_for_option(opt) = { } THEN a0
        ELSE [ a0 EXCEPT
                 !.books = Some(books_from_db),
                 !.sessions = IF include_sessions(opt) THEN Some(sessions) ELSE None,
                 !.terms = IF include_dictionary(opt) THEN Some(terms) ELSE None,
                 !.brightness_history =
                     IF include_brightness(opt) THEN Some(bright_events) ELSE None,
                 !.natural_light_history =
                     IF include_natural_light(opt) THEN Some(light_events) ELSE None,
                 !.app_events = IF include_app_events(opt) THEN Some(apps) ELSE None ]

\* parse_events around and after the scan loop: the EventAnalysis it returns.
EventAnalysisOf(opt, sessions, terms, bright_events, light_events, apps, volume_ids, event_books) ==
    LET a0 == [ EventAnalysisDefault EXCEPT
                  !.bookmarks = IF include_bookmarks(opt) THEN Some(get_bookmarks)
                                ELSE None ]
        books_from_db == MapExtend(get_books_by_volume_id(volume_ids), event_books)
    IN  IF event_types_for_option(opt) = { } THEN a0
        ELSE [ a0 EXCEPT
                 !.books = Some(books_from_db),
                 !.sessions = IF include_sessions(opt)
                              THEN Some(BackfillTitles(sessions, books_from_db)) ELSE None,
                 !.terms = IF include_dictionary(opt) THEN Some(terms) ELSE None,
                 !.brightness_history =
                     IF include_brightness(opt) THEN Some(bright_events) ELSE None,
                 !.natural_light_history =
                     IF include_natural_light(opt) THEN Some(light_events) ELSE None,
                 !.app_events = IF include_app_events(opt) THEN Some(apps) ELSE None ]

----------------------------------------------------------------------------
(* db.rs: the trigger that forbids DELETE on AnalyticsEvents *)

TRIGGER_NAME == "prevent_delete_on_analytics_events"

\* The database of setup_test_db: the table AnalyticsEvents exists and is
\* empty, and sqlite_master holds no trigger.
setup_test_db == [ sqlite_master |-> { }, AnalyticsEvents |-> { } ]

\* SELECT 1 FROM sqlite_master WHERE type='trigger' AND name = ?1 LIMIT 1
trigger_exists(c) == TRIGGER_NAME \in c.sqlite_master

\* Mutant of install_analytics_events_trigger: CREATE TRIGGER IF NOT EXISTS,
\* with no check beforehand.
install_analytics_events_trigger_IfNotExists(c) ==
    [ result |-> "Ok",
      conn   |-> [ c EXCEPT !.sqlite_master = @ \cup { TRIGGER_NAME } ] ]

\* The result of the call and the database it leaves.
install_analytics_events_trigger(c) ==
    IF trigger_exists(c)
    THEN [ result |-> "AlreadyExists", conn |-> c ]
    ELSE [ result |-> "Ok",
           conn   |-> [ c EXCEPT !.sqlite_master = @ \cup { TRIGGER_NAME } ] ]

remove_analytics_events_trigger(c) ==
    IF ~trigger_exists(c)
    THEN [ result |-> "NotFound", conn |-> c ]
    ELSE [ result |-> "Ok",
           conn   |-> [ c EXCEPT !.sqlite_master = @ \ { TRIGGER_NAME } ] ]

\* INSERT INTO AnalyticsEvents (Id, ...) VALUES (id, ...): Id is the primary
\* key, so a second row with the same Id is refused.
insert_row(c, id) ==
    IF id \in c.AnalyticsEvents
    THEN [ result |-> "Constraint", conn |-> c ]
    ELSE [ result |-> "Ok", conn |-> [ c EXCEPT !.AnalyticsEvents = @ \cup { id } ] ]

\* Mutant of delete_rows: the trigger is never consulted.
delete_rows_NoTrigger(c, ids) ==
    [ result |-> "Ok", conn |-> [ c EXCEPT !.AnalyticsEvents = @ \ ids ] ]

\* DELETE FROM AnalyticsEvents WHERE Id IN ids: the BEFORE DELETE trigger runs
\* for each row about to be deleted, and its RAISE(ABORT) undoes the statement.
delete_rows(c, ids) ==
    IF trigger_exists(c) /\ c.AnalyticsEvents \cap ids # { }
    THEN [ result |-> "Abort", conn |-> c ]
    ELSE [ result |-> "Ok", conn |-> [ c EXCEPT !.AnalyticsEvents = @ \ ids ] ]

----------------------------------------------------------------------------
(* The entry points: Parser::parse_events and Parser::parse_correlated *)

InitLogs(entries, logs) ==
    /\ events_log \in logs
    /\ first_result = None
    /\ pc = "scan"
    /\ \E e \in entries : entry = e[1] /\ option = e[2]
    /\ rows_read = 0
    /\ row = None
    /\ next_uuid = 1
    /\ current_session = None
    /\ sessions_vec = << >>
    /\ terms_map = << >>
    /\ dictionary_events = << >>
    /\ brightness_events = << >>
    /\ natural_light_events = << >>
    /\ app_events = << >>
    /\ volume_ids_to_query = { }
    /\ books_from_events = << >>
    /\ errors = << >>
    /\ analysis = None
    /\ conn = setup_test_db
    /\ db_op = "none"
    /\ db_arg = { }
    /\ db_result = "none"
    /\ db_calls = 0

InitOver(entries) == InitLogs(entries, { << >> })

\* The row ev as fetched by rows.next(): its Id is its position in the log.
Fetched(ev) ==
    [ id |-> rows_read + 1, kind |-> ev.kind, ts |-> ev.ts,
      attributes |-> ev.attributes, metrics |-> ev.metrics ]

\* rows.next() returned Some(row).
Fetch(ev) ==
    /\ rows_read' = rows_read + 1
    /\ row' = Some(Fetched(ev))

\* A `?` that returns Err from the entry point while handling the row ev: the
\* locals other than the cursor are dropped.
ReturnErr(ev) ==
    /\ pc' = "failed"
    /\ rows_read' = rows_read + 1
    /\ row' = Some(Fetched(ev))
    /\ next_uuid' = 1
    /\ current_session' = None
    /\ sessions_vec' = << >>
    /\ terms_map' = << >>
    /\ dictionary_events' = << >>
    /\ brightness_events' = << >>
    /\ natural_light_events' = << >>
    /\ app_events' = << >>
    /\ volume_ids_to_query' = { }
    /\ books_from_events' = << >>
    /\ errors' = << >>
    /\ analysis' = None
    /\ UNCHANGED << entry, option >>

\* The match on (volumeid, title, author) that registers books.
RegisterBook(attr) ==
    IF IsNone(attr.volumeid) /\ IsSome(attr.title) /\ IsSome(attr.author)
    THEN /\ books_from_events' =
                IF Unwrap(attr.title) \in DOMAIN books_from_events
                THEN books_from_events
                ELSE MapExtend(books_from_events,
                               [ t \in { Unwrap(attr.title) } |-> Unwrap(attr.title) ])
         /\ UNCHANGED volume_ids_to_query
    ELSE IF IsSome(attr.volumeid) /\ IsNone(attr.title)
    THEN /\ volume_ids_to_query' = volume_ids_to_query \cup { Unwrap(attr.volumeid) }
         /\ UNCHANGED books_from_events
    ELSE UNCHANGED << books_from_events, volume_ids_to_query >>

\* The "OpenContent" | "LeaveContent" arm of the scan loop.
OpenLeaveArm(ev) ==
    IF IsNone(from_json(ev.attributes))
            \/ (ev.kind = "LeaveContent" /\ IsNone(from_json(ev.metrics)))
    THEN ReturnErr(ev)
    ELSE LET attr == Unwrap(from_json(ev.attributes))
             metrics == IF ev.kind = "LeaveContent" THEN from_json(ev.metrics) ELSE None
             event_id == rows_read + 1
             r == handle_reading_session_event(ev.kind, event_id, current_session, ev.ts,
                                               ProgressOf(attr), attr, metrics, next_uuid)
         IN  /\ RegisterBook(attr)
             /\ current_session' = r.cur
             /\ sessions_vec' = IF IsSome(r.out) THEN Append(sessions_vec, Unwrap(r.out))
                                ELSE sessions_vec
             /\ errors' = IF r.err THEN Append(errors, event_id) ELSE errors
             /\ Fetch(ev)
             /\ next_uuid' = IF ev.kind = "OpenContent" THEN next_uuid + 1 ELSE next_uuid
             /\ UNCHANGED << pc, entry, option, terms_map, dictionary_events,
                             brightness_events, natural_light_events, app_events,
                             analysis >>

\* on_dictionary_lookup
on_dictionary_lookup(attributes, session_id) ==
    IF IsNone(from_json(attributes)) THEN None
    ELSE Some(DictionaryWordNew(attributes.word, attributes.lang, session_id))

\* The "DictionaryLookup" arm: parse_events counts the word, stamped with the
\* id of the current session; parse_correlated keeps it with its timestamp.
DictionaryArm(ev) ==
    LET session_id == IF entry = "parse_events" /\ IsSome(current_session)
                      THEN Some(Unwrap(current_session).id) ELSE None
        word == on_dictionary_lookup(ev.attributes, session_id)
    IN  IF IsNone(word) THEN ReturnErr(ev)
        ELSE /\ IF entry = "parse_events"
                THEN /\ terms_map' =
                            MapExtend(terms_map,
                                [ w \in { Unwrap(word) } |->
                                    IF w \in DOMAIN terms_map THEN terms_map[w] + 1 ELSE 1 ])
                     /\ UNCHANGED dictionary_events
                ELSE /\ dictionary_events' =
                            Append(dictionary_events,
                                   [ timestamp |-> ev.ts, word |-> Unwrap(word) ])
                     /\ UNCHANGED terms_map
             /\ Fetch(ev)
             /\ UNCHANGED << pc, entry, option, next_uuid, current_session,
                             sessions_vec, brightness_events, natural_light_events,
                             app_events, volume_ids_to_query, books_from_events,
                             errors, analysis >>

\* on_light_adjusted
on_light_adjusted(attributes, metrics, ts) ==
    IF IsNone(from_json(attributes)) \/ IsNone(from_json(metrics)) THEN None
    ELSE Some([ brightness |-> [ method |-> attributes.method,
                                 percentage |-> metrics.new_light ],
                timestamp |-> ts ])

\* The "BrightnessAdjusted" and "NaturalLightAdjusted" arms.
LightArm(ev) ==
    LET event == on_light_adjusted(ev.attributes, ev.metrics, ev.ts)
    IN  IF IsNone(event) THEN ReturnErr(ev)
        ELSE /\ IF ev.kind = "BrightnessAdjusted"
                THEN /\ brightness_events' = Append(brightness_events, Unwrap(event))
                     /\ UNCHANGED natural_light_events
                ELSE /\ natural_light_events' = Append(natural_light_events, Unwrap(event))
                     /\ UNCHANGED brightness_events
             /\ Fetch(ev)
             /\ UNCHANGED << pc, entry, option, next_uuid, current_session,
                             sessions_vec, terms_map, dictionary_events, app_events,
                             volume_ids_to_query, books_from_events, errors, analysis >>

\* parse_optional_json_value: [ok, value]; an absent or blank column is None.
parse_optional_json_value(attributes) ==
    IF IsNone(attributes.json) THEN [ ok |-> TRUE, value |-> None ]
    ELSE IF attributes.ok THEN [ ok |-> TRUE, value |-> attributes.json ]
    ELSE [ ok |-> FALSE, value |-> None ]

\* The "AppStart" | "PluggedIn" arm.
AppArm(ev) ==
    LET parsed == parse_optional_json_value(ev.attributes)
    IN  IF ~parsed.ok THEN ReturnErr(ev)
        ELSE /\ app_events' = Append(app_events, AppEventNew(ev.kind, ev.ts, parsed.value))
             /\ Fetch(ev)
             /\ UNCHANGED << pc, entry, option, next_uuid, current_session,
                             sessions_vec, terms_map, dictionary_events,
                             brightness_events, natural_light_events,
                             volume_ids_to_query, books_from_events, errors, analysis >>

\* One iteration of the scan loop on the row ev; the query returns only the
\* rows whose Type is in event_types_for_option.
ScanRow(ev) ==
    /\ pc = "scan"
    /\ ev.kind \in event_types_for_option(option)
    /\ UNCHANGED db_vars
    /\ UNCHANGED caller_vars
    /\ CASE ev.kind \in { "OpenContent", "LeaveContent" }
                /\ (entry = "parse_correlated" \/ include_sessions(option))
                -> OpenLeaveArm(ev)
         [] ev.kind = "DictionaryLookup"
                /\ (entry = "parse_correlated" \/ include_dictionary(option))
                -> DictionaryArm(ev)
         [] ev.kind = "BrightnessAdjusted"
                /\ (entry = "parse_correlated" \/ include_brightness(option))
                -> LightArm(ev)
         [] ev.kind = "NaturalLightAdjusted"
                /\ (entry = "parse_correlated" \/ include_natural_light(option))
                -> LightArm(ev)
         [] ev.kind \in { "AppStart", "PluggedIn" }
                /\ (entry = "parse_correlated" \/ include_app_events(option))
                -> AppArm(ev)
         [] OTHER -> UNCHANGED vars

\* rows.next() returns None: everything after the scan loop, up to Ok(..).
Finish ==
    /\ pc = "scan"
    /\ pc' = "done"
    /\ analysis' =
          IF entry = "parse_correlated"
          THEN Some(CorrelatedAnalysisOf(sessions_vec, dictionary_events,
                                         brightness_events, natural_light_events,
                                         app_events, volume_ids_to_query,
                                         books_from_events))
          ELSE Some(EventAnalysisOf(option, sessions_vec, terms_map, brightness_events,
                                    natural_light_events, app_events,
                                    volume_ids_to_query, books_from_events))
    /\ UNCHANGED << entry, option >>
    /\ UNCHANGED scan_vars
    /\ UNCHANGED db_vars
    /\ UNCHANGED caller_vars

----------------------------------------------------------------------------
(* The rows of AnalyticsEvents the specifications draw the log from *)

BlankAttributes ==
    [ ok |-> FALSE, progress |-> << >>, volumeid |-> None, title |-> None,
      author |-> None, word |-> << >>, lang |-> "", method |-> "", json |-> None ]

\* A Metrics column that is not JSON (the "" of OpenContent rows).
BlankMetrics ==
    [ ok |-> FALSE, button_press_count |-> 0, seconds_read |-> 0,
      pages_turned |-> 0, new_light |-> 0 ]

SessionAttributes(progress, volumeid, title, author) ==
    [ BlankAttributes EXCEPT !.ok = TRUE, !.progress = progress,
                             !.volumeid = volumeid, !.title = title,
                             !.author = author ]

LeaveMetrics(b, s, g) ==
    [ BlankMetrics EXCEPT !.ok = TRUE, !.button_press_count = b,
                          !.seconds_read = s, !.pages_turned = g ]

Row(kind, ts, attributes, metrics) ==
    [ kind |-> kind, ts |-> ts, attributes |-> attributes, metrics |-> metrics ]

OpenRow(ts, progress, volumeid, title, author) ==
    Row("OpenContent", ts, SessionAttributes(progress, volumeid, title, author),
        BlankMetrics)

LeaveRow(ts, progress, b, s, g) ==
    Row("LeaveContent", ts, SessionAttributes(progress, Some("book1"), None, None),
        LeaveMetrics(b, s, g))

\* A lookup of the word that spells the row's timestamp.
DictionaryRow(ts) ==
    Row("DictionaryLookup", ts,
        [ BlankAttributes EXCEPT !.ok = TRUE, !.word = DecimalText(ts), !.lang = "en" ],
        BlankMetrics)

LightRow(kind, ts) ==
    Row(kind, ts, [ BlankAttributes EXCEPT !.ok = TRUE, !.method = "manual" ],
        [ BlankMetrics EXCEPT !.ok = TRUE, !.new_light = 50 ])

AppStartRow(ts) ==
    Row("AppStart", ts, [ BlankAttributes EXCEPT !.ok = TRUE, !.json = Some("app") ],
        BlankMetrics)

PluggedInRow(ts) == Row("PluggedIn", ts, BlankAttributes, BlankMetrics)

\* Rows whose payload does not decode.
BadAttributes(r) == [ r EXCEPT !.attributes.ok = FALSE ]

BadMetrics(r) == [ r EXCEPT !.metrics.ok = FALSE ]

ProgressTexts == { << "0" >>, << "5", "0" >>, << "2", "0", "0" >>, << "x" >> }

ScanTimes == { 0, 1 }

ScanRows ==
    { OpenRow(ts, p, Some("book1"), None, None) : ts \in ScanTimes, p \in ProgressTexts }
    \cup { OpenRow(0, << "0" >>, None, Some("Title"), Some("Author")) }
    \cup { LeaveRow(ts, p, 10, 300, 5) : ts \in ScanTimes, p \in ProgressTexts }
    \cup { DictionaryRow(0), LightRow("BrightnessAdjusted", 0),
           LightRow("NaturalLightAdjusted", 0), AppStartRow(0), PluggedInRow(0) }
    \cup { BadAttributes(OpenRow(0, << "0" >>, Some("book1"), None, None)),
           BadAttributes(LeaveRow(0, << "0" >>, 10, 300, 5)),
           BadMetrics(LeaveRow(0, << "0" >>, 10, 300, 5)),
           BadAttributes(DictionaryRow(0)),
           BadMetrics(LightRow("BrightnessAdjusted", 0)),
           BadAttributes(AppStartRow(0)) }

MaxRows == 3

NextOver(rows, max_rows) ==
    \/ rows_read < max_rows /\ \E ev \in rows : ScanRow(ev)
    \/ Finish

Init == InitOver({ << "parse_correlated", "All" >>, << "parse_events", "All" >> })

Next == NextOver(ScanRows, MaxRows)

Spec == Init /\ [][Next]_vars

----------------------------------------------------------------------------
(* parse_correlated on logs the query returns in ascending Timestamp order,  *)
(* with one reading session [40, 50] and events around its 30 s window       *)

CorrelationTimes == { 9, 10, 45, 79, 80, 81 }

PlugTimes == { 10, 40, 45 }

SortedRows ==
    { OpenRow(40, << "0" >>, Some("book1"), None, None),
      LeaveRow(50, << "5", "0" >>, 10, 300, 5) }
    \cup { DictionaryRow(ts) : ts \in CorrelationTimes }
    \cup { LightRow("BrightnessAdjusted", ts) : ts \in CorrelationTimes }
    \cup { LightRow("NaturalLightAdjusted", ts) : ts \in CorrelationTimes }
    \cup { AppStartRow(ts) : ts \in CorrelationTimes }
    \cup { PluggedInRow(ts) : ts \in PlugTimes }

MaxSortedRows == 4

InitSorted == InitOver({ << "parse_correlated", "All" >> })

\* ORDER BY Timestamp ASC: a row is never earlier than the one before it.
NextSorted ==
    \/ /\ rows_read < MaxSortedRows
       /\ \E ev \in SortedRows :
             /\ IF IsNone(row) THEN TRUE ELSE ev.ts >= Unwrap(row).ts
             /\ ScanRow(ev)
    \/ Finish

SpecSorted == InitSorted /\ [][NextSorted]_vars

----------------------------------------------------------------------------
(* parse_correlated on logs in any order with the session [40, 50], plug-ins *)
(* inside and outside its window, and app starts on two calendar days        *)

CyclePlugTimes == { 5, 40, 45 }

CycleStartTimes == { 45, 86399, 86400 }

CycleRows ==
    { OpenRow(40, << "0" >>, Some("book1"), None, None),
      LeaveRow(50, << "5", "0" >>, 10, 300, 5) }
    \cup { PluggedInRow(ts) : ts \in CyclePlugTimes }
    \cup { AppStartRow(ts) : ts \in CycleStartTimes }

MaxCycleRows == 4

NextCycles == NextOver(CycleRows, MaxCycleRows)

SpecCycles == InitSorted /\ [][NextCycles]_vars

----------------------------------------------------------------------------
(* parse_events under every ParseOption, on logs in any order with one row  *)
(* of each event type                                                        *)

OptionRows ==
    { OpenRow(0, << "0" >>, Some("book1"), None, None),
      LeaveRow(1, << "5", "0" >>, 10, 300, 5),
      DictionaryRow(0),
      LightRow("BrightnessAdjusted", 0),
      LightRow("NaturalLightAdjusted", 0),
      AppStartRow(0),
      PluggedInRow(0) }

MaxOptionRows == 3

InitOptions == InitOver({ << "parse_events", o >> : o \in ParseOptions })

NextOptions == NextOver(OptionRows, MaxOptionRows)

SpecOptions == InitOptions /\ [][NextOptions]_vars

----------------------------------------------------------------------------
(* Both entry points on logs whose open rows name a book the content table  *)
(* has (book1), one it has not (book2), or carry their own title             *)

TitleRows ==
    { OpenRow(0, << "0" >>, Some("book1"), None, None),
      OpenRow(0, << "0" >>, Some("book2"), None, None),
      OpenRow(0, << "0" >>, None, Some("Title"), Some("Author")),
      OpenRow(0, << "0" >>, Some("book1"), Some("Stale"), None),
      OpenRow(0, << "0" >>, Some("Title"), None, None),
      LeaveRow(1, << "5", "0" >>, 10, 300, 5),
      Row("LeaveContent", 1, SessionAttributes(<< "5", "0" >>, None, None, None),
          LeaveMetrics(10, 300, 5)) }

MaxTitleRows == 3

NextTitles == NextOver(TitleRows, MaxTitleRows)

SpecTitles == Init /\ [][NextTitles]_vars

----------------------------------------------------------------------------
(* parse_correlated on the rows of test_parse_correlated_basic that the     *)
(* end-to-end scenario names, as seconds of 2023-01-01                       *)

ScenarioRows ==
    { PluggedInRow(35400),
      OpenRow(36000, << "0" >>, Some("book1"), None, None),
      AppStartRow(36010),
      DictionaryRow(36120),
      LeaveRow(36600, << "1", "0" >>, 10, 600, 5),
      DictionaryRow(39600) }

MaxScenarioRows == 6

\* ORDER BY Timestamp ASC, as in NextSorted.
NextScenario ==
    \/ /\ rows_read < MaxScenarioRows
       /\ \E ev \in ScenarioRows :
             /\ IF IsNone(row) THEN TRUE ELSE ev.ts >= Unwrap(row).ts
             /\ ScanRow(ev)
    \/ Finish

SpecScenario == InitSorted /\ [][NextScenario]_vars

----------------------------------------------------------------------------
(* parse_correlated on ascending logs with two reading sessions, [100, 110] *)
(* and [120, 130], whose 30 s windows overlap                                *)

TieTimes == { 80, 115, 125, 150, 161 }

TieRows ==
    { OpenRow(100, << "0" >>, Some("book1"), None, None),
      LeaveRow(110, << "5", "0" >>, 10, 300, 5),
      OpenRow(120, << "0" >>, Some("book1"), None, None),
      LeaveRow(130, << "5", "0" >>, 10, 300, 5) }
    \cup { DictionaryRow(ts) : ts \in TieTimes }
    \cup { LightRow("BrightnessAdjusted", ts) : ts \in TieTimes }

MaxTieRows == 6

\* ORDER BY Timestamp ASC, as in NextSorted.
NextTies ==
    \/ /\ rows_read < MaxTieRows
       /\ \E ev \in TieRows :
             /\ IF IsNone(row) THEN TRUE ELSE ev.ts >= Unwrap(row).ts
             /\ ScanRow(ev)
    \/ Finish

SpecTies == InitSorted /\ [][NextTies]_vars

----------------------------------------------------------------------------
(* Both entry points on ascending logs of open and leave rows at three      *)
(* times, so that a session can start at the second the previous one ends   *)

OrderTimes == { 1, 2, 3 }

OrderRows ==
    { OpenRow(ts, << "0" >>, Some("book1"), None, None) : ts \in OrderTimes }
    \cup { LeaveRow(ts, << "5", "0" >>, 10, 300, 5) : ts \in OrderTimes }

MaxOrderRows == 4

\* ORDER BY Timestamp ASC, as in NextSorted.
NextOrder ==
    \/ /\ rows_read < MaxOrderRows
       /\ \E ev \in OrderRows :
             /\ IF IsNone(row) THEN TRUE ELSE ev.ts >= Unwrap(row).ts
             /\ ScanRow(ev)
    \/ Finish

SpecOrder == Init /\ [][NextOrder]_vars

----------------------------------------------------------------------------
(* A caller that runs parse_events(All) and then parse_correlated on the    *)
(* same AnalyticsEvents table, whose rows are fixed from the start           *)

BothRows ==
    { OpenRow(0, << "0" >>, Some("book1"), None, None),
      OpenRow(0, << "2", "0", "0" >>, None, Some("Title"), Some("Author")),
      LeaveRow(1, << "5", "0" >>, 10, 300, 5),
      BadMetrics(LeaveRow(1, << "5", "0" >>, 10, 300, 5)),
      DictionaryRow(0),
      BadAttributes(DictionaryRow(0)),
      AppStartRow(0) }

MaxBothRows == 3

RECURSIVE LogsUpTo(_, _)
\* The logs of at most n rows drawn from rows.
LogsUpTo(rows, n) ==
    IF n = 0 THEN { << >> }
    ELSE LET shorter == LogsUpTo(rows, n - 1)
         IN  shorter \cup { Append(l, r) : l \in shorter, r \in rows }

InitBoth == InitLogs({ << "parse_events", "All" >> }, LogsUpTo(BothRows, MaxBothRows))

\* rows.next() returns the next row of the table.
ScanLog ==
    /\ rows_read < Len(events_log)
    /\ ScanRow(events_log[rows_read + 1])

\* rows.next() returns None at the end of the table.
FinishLog ==
    /\ rows_read = Len(events_log)
    /\ Finish

\* parse_events has returned: the caller keeps its result and calls
\* parse_correlated, which starts from fresh locals.
CallCorrelated ==
    /\ IsNone(first_result)
    /\ pc \in { "done", "failed" }
    /\ first_result' =
          Some([ failed |-> pc = "failed",
                 sessions |-> IF pc = "done" THEN Unwrap(Unwrap(analysis).sessions)
                              ELSE << >> ])
    /\ pc' = "scan"
    /\ entry' = "parse_correlated"
    /\ option' = "All"
    /\ rows_read' = 0
    /\ row' = None
    /\ next_uuid' = 1
    /\ current_session' = None
    /\ sessions_vec' = << >>
    /\ terms_map' = << >>
    /\ dictionary_events' = << >>
    /\ brightness_events' = << >>
    /\ natural_light_events' = << >>
    /\ app_events' = << >>
    /\ volume_ids_to_query' = { }
    /\ books_from_events' = << >>
    /\ errors' = << >>
    /\ analysis' = None
    /\ UNCHANGED events_log
    /\ UNCHANGED db_vars

NextBoth == ScanLog \/ FinishLog \/ CallCorrelated

SpecBoth == InitBoth /\ [][NextBoth]_vars

----------------------------------------------------------------------------
(* db.rs: calls on one connection, in any order: installing and removing    *)
(* the trigger, inserting rows and deleting them                             *)

RowIds == { "row1", "row2" }

MaxDbCalls == 5

\* One call on conn returning r.
DbCall(op, ids, r) ==
    /\ db_calls < MaxDbCalls
    /\ db_calls' = db_calls + 1
    /\ db_op' = op
    /\ db_arg' = ids
    /\ db_result' = r.result
    /\ conn' = r.conn
    /\ UNCHANGED parser_vars
    /\ UNCHANGED caller_vars

Install == DbCall("install", { }, install_analytics_events_trigger(conn))

Remove == DbCall("remove", { }, remove_analytics_events_trigger(conn))

Insert == \E id \in RowIds : DbCall("insert", { id }, insert_row(conn, id))

Delete == \E ids \in SUBSET RowIds : DbCall("delete", ids, delete_rows(conn, ids))

NextDb == Install \/ Remove \/ Insert \/ Delete

SpecDb == InitSorted /\ [][NextDb]_vars

----------------------------------------------------------------------------
(* Vocabulary of the properties *)

\* A step of the scan loop: one more row has been fetched.
ScanStep == pc = "scan" /\ rows_read' = rows_read + 1

\* The row a scan step has just handled.
Scanned == Unwrap(row')

\* The payload columns the arm of r.kind decodes are all decodable.
RowDecodes(r) ==
    CASE r.kind = "OpenContent" -> r.attributes.ok
      [] r.kind = "LeaveContent" -> r.attributes.ok /\ r.metrics.ok
      [] r.kind = "DictionaryLookup" -> r.attributes.ok
      [] r.kind \in { "BrightnessAdjusted", "NaturalLightAdjusted" } ->
            r.attributes.ok /\ r.metrics.ok
      [] OTHER -> IsNone(r.attributes.json) \/ r.attributes.ok

\* The reading sessions of the value returned, those inside cycles included.
OutputSessions ==
    IF IsNone(analysis) THEN << >>
    ELSE IF entry = "parse_correlated"
    THEN LET a == Unwrap(analysis)
         IN  [ i \in 1..Len(a.sessions) |-> a.sessions[i].session ]
                \o Flatten([ c \in 1..Len(a.cycles) |->
                               [ i \in 1..Len(a.cycles[c].sessions) |->
                                   a.cycles[c].sessions[i].session ] ], 1)
    ELSE UnwrapOr(Unwrap(analysis).sessions, << >>)

SessionIds(sessions) == { sessions[i].id : i \in 1..Len(sessions) }

WellFormedSession(s) ==
    /\ IsSome(s.time_end) /\ IsSome(s.end_progress) /\ IsSome(s.leave_content_id)
    /\ IsSome(s.button_press_count) /\ IsSome(s.seconds_read) /\ IsSome(s.pages_turned)
    /\ Unwrap(s.time_end) >= s.time_start
    /\ 0 <= s.start_progress
    /\ s.start_progress <= Unwrap(s.end_progress)
    /\ Unwrap(s.end_progress) <= 100

----------------------------------------------------------------------------
(* C1 *)

C1_OpenStep ==
    (ScanStep /\ Scanned.kind = "OpenContent" /\ RowDecodes(Scanned)) =>
        /\ sessions_vec' = sessions_vec
        /\ IsSome(current_session')
        /\ Unwrap(current_session').time_start = Scanned.ts
        /\ Unwrap(current_session').start_progress = ProgressOf(Scanned.attributes)
        /\ Unwrap(current_session').open_content_id = Scanned.id
        /\ IsNone(Unwrap(current_session').time_end)

C1_OtherStep ==
    (ScanStep /\ Scanned.kind \notin { "OpenContent", "LeaveContent" }
        /\ RowDecodes(Scanned)) =>
            UNCHANGED << current_session, sessions_vec >>

C1_LeaveStep ==
    (ScanStep /\ Scanned.kind = "LeaveContent" /\ RowDecodes(Scanned)
        /\ IsSome(current_session)
        /\ Unwrap(current_session).time_start <= Scanned.ts
        /\ 0 <= Unwrap(current_session).start_progress
        /\ Unwrap(current_session).start_progress <= ProgressOf(Scanned.attributes)
        /\ ProgressOf(Scanned.attributes) <= 100) =>
            LET o == Unwrap(current_session)
            IN  /\ current_session' = None
                /\ errors' = errors
                /\ sessions_vec' = Append(sessions_vec,
                      [ o EXCEPT
                          !.time_end = Some(Scanned.ts),
                          !.end_progress = Some(ProgressOf(Scanned.attributes)),
                          !.button_press_count = Some(Scanned.metrics.button_press_count),
                          !.seconds_read = Some(Scanned.metrics.seconds_read),
                          !.pages_turned = Some(Scanned.metrics.pages_turned),
                          !.leave_content_id = Some(Scanned.id) ])

\* C1: an OpenContent row opens a session carrying its time, progress and id,
\* rows that are neither OpenContent nor LeaveContent leave it alone, and a
\* LeaveContent row with ts <= te and 0 <= p0 <= p1 <= 100 appends exactly that
\* session, completed with the leave row's time, progress, metrics and id, and
\* leaves no session open.
C1_OpenLeavePair == [][C1_OpenStep /\ C1_OtherStep /\ C1_LeaveStep]_vars

C1_Witness ==
    /\ pc = "scan" /\ IsSome(row) /\ Unwrap(row).kind = "LeaveContent"
    /\ rows_read = 3
    /\ current_session = None
    /\ Len(sessions_vec) = 1
    /\ sessions_vec[1].open_content_id = 1
    /\ sessions_vec[1].leave_content_id = Some(3)
    /\ sessions_vec[1].time_start = 0 /\ sessions_vec[1].time_end = Some(1)
    /\ sessions_vec[1].start_progress = 0 /\ sessions_vec[1].end_progress = Some(50)
    /\ sessions_vec[1].seconds_read = Some(300)
    /\ sessions_vec[1].pages_turned = Some(5)
    /\ sessions_vec[1].button_press_count = Some(10)

----------------------------------------------------------------------------
(* C6 *)

\* C6: a decodable LeaveContent row handled while no session is open emits no
\* session, leaves no session open, reports an error for that row and keeps
\* the scan going.
C6_OrphanLeave ==
    [][ (ScanStep /\ Scanned.kind = "LeaveContent" /\ RowDecodes(Scanned)
            /\ IsNone(current_session)) =>
                /\ pc' = "scan"
                /\ sessions_vec' = sessions_vec
                /\ current_session' = None
                /\ errors' = Append(errors, Scanned.id) ]_vars

\* The leave of row 1 was reported, and the pair of rows 2 and 3 is in the
\* result.
C6_Witness ==
    /\ pc = "done"
    /\ errors = << 1 >>
    /\ Len(OutputSessions) >= 1
    /\ OutputSessions[1].open_content_id = 2
    /\ OutputSessions[1].leave_content_id = Some(3)

----------------------------------------------------------------------------
(* C7 *)

\* C7: a decodable LeaveContent row whose completion fails (leave time before
\* the start, end progress above 100 or below the start progress) emits no
\* session, reports an error for that row, and leaves the open session as it
\* was.
C7_FailedCompletion ==
    [][ (ScanStep /\ Scanned.kind = "LeaveContent" /\ RowDecodes(Scanned)
            /\ IsSome(current_session)
            /\ \/ Scanned.ts < Unwrap(current_session).time_start
               \/ ProgressOf(Scanned.attributes) > 100
               \/ ProgressOf(Scanned.attributes) < Unwrap(current_session).start_progress) =>
                /\ pc' = "scan"
                /\ sessions_vec' = sessions_vec
                /\ errors' = Append(errors, Scanned.id)
                /\ current_session' = current_session
                /\ ~is_complete(Unwrap(current_session')) ]_vars

\* The leave of row 2 failed and the leave of row 3 completed the session
\* opened by row 1.
C7_Witness ==
    /\ pc = "done"
    /\ errors = << 2 >>
    /\ Len(sessions_vec) = 1
    /\ sessions_vec[1].open_content_id = 1
    /\ sessions_vec[1].leave_content_id = Some(3)

----------------------------------------------------------------------------
(* C8 *)

\* C8: a row whose payload fails to decode is skipped: the scan goes on with
\* the sessions reconstructed so far and the open session untouched.
C8_DecodeFailureSkipped ==
    [][ (ScanStep /\ ~RowDecodes(Scanned)) =>
            /\ pc' = "scan"
            /\ UNCHANGED << current_session, sessions_vec >> ]_vars

----------------------------------------------------------------------------
(* C9 *)

\* C9: every session collected by the scan and every session of the value
\* returned is completed and well-formed.
C9_OutputWellFormed ==
    /\ \A i \in 1..Len(sessions_vec) : WellFormedSession(sessions_vec[i])
    /\ \A i \in 1..Len(OutputSessions) : WellFormedSession(OutputSessions[i])

\* A session reaching 100% is returned while another one is still open.
C9_Witness ==
    /\ pc = "done"
    /\ IsSome(current_session)
    /\ Len(OutputSessions) >= 1
    /\ OutputSessions[1].start_progress = 50
    /\ OutputSessions[1].end_progress = Some(50)

----------------------------------------------------------------------------
(* C10 *)

C10_OpenReplaces ==
    (ScanStep /\ Scanned.kind = "OpenContent" /\ RowDecodes(Scanned)) =>
        /\ sessions_vec' = sessions_vec
        /\ IsSome(current_session')
        /\ Unwrap(current_session').open_content_id = Scanned.id
        /\ Unwrap(current_session').id
                \notin SessionIds(sessions_vec) \cup SessionIds(current_session)

C10_OnlyCurrentIsEmitted ==
    ScanStep =>
        \/ sessions_vec' = sessions_vec
        \/ pc' = "failed"
        \/ /\ IsSome(current_session)
           /\ Len(sessions_vec') = Len(sessions_vec) + 1
           /\ SubSeq(sessions_vec', 1, Len(sessions_vec)) = sessions_vec
           /\ sessions_vec'[Len(sessions_vec')].id = Unwrap(current_session).id
           /\ current_session' = None

C10_OpenNeverReturned ==
    (pc = "scan" /\ pc' = "done") =>
        /\ SessionIds(OutputSessions') = SessionIds(sessions_vec)
        /\ SessionIds(current_session) \cap SessionIds(OutputSessions') = { }

\* C10: current_session holds at most one session; an OpenContent row replaces
\* it with a new session and emits nothing; only the session that is current
\* is ever emitted, by the step that closes it; and the value returned holds
\* the emitted sessions only, never the one still open.
C10_SingleOpenSession ==
    [][ /\ Len(current_session) <= 1 /\ Len(current_session') <= 1
        /\ C10_OpenReplaces
        /\ C10_OnlyCurrentIsEmitted
        /\ C10_OpenNeverReturned ]_vars

\* Row 2 replaced the session opened by row 1, and only the session of rows 2
\* and 3 is returned.
C10_Witness ==
    /\ pc = "done"
    /\ errors = << >>
    /\ rows_read = 3
    /\ Len(sessions_vec) = 1
    /\ sessions_vec[1].open_content_id = 2
    /\ \A i \in 1..Len(OutputSessions) : OutputSessions[i].open_content_id = 2

----------------------------------------------------------------------------
(* Vocabulary of the correlation and cycle properties *)

AuxFields == { "dictionary", "brightness", "natural_light", "app_events" }

\* The event types whose rows end up in the collections named `field`.
KindsOf(field) ==
    CASE field = "dictionary" -> { "DictionaryLookup" }
      [] field = "brightness" -> { "BrightnessAdjusted" }
      [] field = "natural_light" -> { "NaturalLightAdjusted" }
      [] field = "app_events" -> { "AppStart", "PluggedIn" }

\* The events of the log the scan has collected for `field`.
ScanEvents(field) ==
    CASE field = "dictionary" -> dictionary_events
      [] field = "brightness" -> brightness_events
      [] field = "natural_light" -> natural_light_events
      [] field = "app_events" -> app_events

\* The time of an item of a collection: a lookup's word spells its time.
ItemTime(field, item) ==
    IF field = "dictionary" THEN DecimalValue(item.term, 0) ELSE item.timestamp

\* T lies in the window of the completed session s widened by tol on both sides.
InWindow(s, T, tol) ==
    /\ IsSome(s.time_end)
    /\ s.time_start - tol <= T
    /\ T <= Unwrap(s.time_end) + tol

\* The number of items of the collection `items` whose time is T.
CountAt(field, items, T) ==
    Cardinality({ k \in 1..Len(items) : ItemTime(field, items[k]) = T })

\* The number of occurrences of e in the sequence s.
Count(s, e) == Cardinality({ k \in 1..Len(s) : s[k] = e })

Range(s) == { s[k] : k \in 1..Len(s) }

Correlated == pc = "done" /\ entry = "parse_correlated"

\* Every app event of a CorrelatedAnalysis a: those of the sessions, then the
\* orphans.
AllAppEvents(a) ==
    Flatten([ i \in 1..Len(a.sessions) |-> a.sessions[i].app_events ], 1)
        \o a.orphans.app_events

\* The half-open placement rule of a cycle, for a time t.
InCycle(cy, t) == cy.start <= t /\ (IsNone(cy.end) \/ t < Unwrap(cy.end))

----------------------------------------------------------------------------
(* C2 *)

\* C2: in the value parse_correlated returns, every item of a session's
\* collection lies in that completed session's window widened by 30 s on both
\* sides, bounds included; an event of the log is among the orphans of its
\* kind iff no session's widened window holds it; a session still open holds
\* nothing; and with tolerance 0 an event matches iff it lies in a session's
\* own closed interval.
C2_WindowCorrelation ==
    /\ \A f \in AuxFields : \A k \in 1..Len(ScanEvents(f)) :
          IsSome(current_session) =>
              ~session_contains(Unwrap(current_session), ScanEvents(f)[k].timestamp, 30)
    /\ Correlated =>
          LET a == Unwrap(analysis)
          IN  \A f \in AuxFields :
                /\ \A i \in 1..Len(a.sessions) : \A k \in 1..Len(a.sessions[i][f]) :
                      InWindow(a.sessions[i].session,
                               ItemTime(f, a.sessions[i][f][k]), 30)
                /\ \A k \in 1..Len(ScanEvents(f)) :
                      LET T == ScanEvents(f)[k].timestamp
                      IN  /\ CountAt(f, a.orphans[f], T) > 0
                              <=> \A i \in 1..Len(a.sessions) :
                                      ~InWindow(a.sessions[i].session, T, 30)
                          /\ IsSome(find_session_index(a.sessions, T, 0))
                              <=> \E i \in 1..Len(a.sessions) :
                                      InWindow(a.sessions[i].session, T, 0)

\* The session [40, 50] holds the brightness event at 50 + 29, the one at
\* 50 + 31 is an orphan, and with tolerance 0 neither matches.
C2_Witness ==
    /\ Correlated
    /\ Len(Unwrap(analysis).sessions) = 1
    /\ Unwrap(analysis).sessions[1].session.time_end = Some(50)
    /\ CountAt("brightness", Unwrap(analysis).sessions[1].brightness, 79) = 1
    /\ CountAt("brightness", Unwrap(analysis).orphans.brightness, 81) = 1
    /\ IsNone(find_session_index(Unwrap(analysis).sessions, 79, 0))
    /\ IsNone(find_session_index(Unwrap(analysis).sessions, 81, 0))

----------------------------------------------------------------------------
(* C3 *)

C3_ScanCollects ==
    (ScanStep /\ entry = "parse_correlated") =>
        \A f \in AuxFields :
            IF Scanned.kind \in KindsOf(f)
            THEN /\ Len(ScanEvents(f)') = Len(ScanEvents(f)) + 1
                 /\ SubSeq(ScanEvents(f)', 1, Len(ScanEvents(f))) = ScanEvents(f)
                 /\ ScanEvents(f)'[Len(ScanEvents(f)')].timestamp = Scanned.ts
            ELSE ScanEvents(f)' = ScanEvents(f)

C3_FinishConserves ==
    (pc = "scan" /\ pc' = "done" /\ entry = "parse_correlated") =>
        LET a == Unwrap(analysis')
            held(f) == Flatten([ i \in 1..Len(a.sessions) |-> a.sessions[i][f] ], 1)
                          \o a.orphans[f]
        IN  \A f \in AuxFields :
              /\ SumSeq([ i \in 1..Len(a.sessions) |-> Len(a.sessions[i][f]) ], 1)
                    + Len(a.orphans[f]) = Len(ScanEvents(f))
              /\ \A k \in 1..Len(ScanEvents(f)) :
                    CountAt(f, held(f), ScanEvents(f)[k].timestamp)
                        = Cardinality({ j \in 1..Len(ScanEvents(f)) :
                              ScanEvents(f)[j].timestamp = ScanEvents(f)[k].timestamp })

\* C3: the scan collects one event per dictionary, brightness, natural-light
\* and app row of the log, and after correlation the sessions' collections
\* and the orphans of each kind hold those events once each: the lengths add
\* up to the number collected, time by time.
C3_EventConservation == [][C3_ScanCollects /\ C3_FinishConserves]_vars

\* Of two lookups one is held by the session and the other is an orphan.
C3_Witness ==
    /\ Correlated
    /\ Len(dictionary_events) = 2
    /\ Len(Unwrap(analysis).sessions) = 1
    /\ Len(Unwrap(analysis).sessions[1].dictionary) = 1
    /\ Len(Unwrap(analysis).orphans.dictionary) = 1

----------------------------------------------------------------------------
(* C4 *)

\* C4: a correlated session is in a cycle's sessions iff the cycle's start <=
\* its time_start < the cycle's end (no upper limit for an open-ended cycle),
\* whatever its time_end; a cycle lists a session once; and an app event is in
\* a cycle's app_events, as often as it was read, iff its timestamp obeys the
\* same rule.
C4_HalfOpenPlacement ==
    Correlated =>
        LET a == Unwrap(analysis)
        IN  \A c \in 1..Len(a.cycles) :
              LET cy == a.cycles[c]
              IN  /\ \A i \in 1..Len(a.sessions) :
                        a.sessions[i] \in Range(cy.sessions)
                            <=> InCycle(cy, a.sessions[i].session.time_start)
                  /\ Range(cy.sessions) \subseteq Range(a.sessions)
                  /\ \A x \in Range(cy.sessions) : Count(cy.sessions, x) = 1
                  /\ \A e \in Range(AllAppEvents(a)) \cup Range(cy.app_events) :
                        Count(cy.app_events, e) =
                            IF InCycle(cy, e.timestamp)
                            THEN Count(AllAppEvents(a), e) ELSE 0

\* With plug-ins at 40 and 45, the session [40, 50] is in the first cycle
\* although it ends after 45, and not in the second.
C4_Witness ==
    /\ Correlated
    /\ Len(Unwrap(analysis).cycles) = 2
    /\ Unwrap(analysis).cycles[1].start = 40
    /\ Unwrap(analysis).cycles[1].end = Some(45)
    /\ Len(Unwrap(analysis).cycles[1].sessions) = 1
    /\ Unwrap(analysis).cycles[1].sessions[1].session.time_end = Some(50)
    /\ Len(Unwrap(analysis).cycles[2].sessions) = 0

----------------------------------------------------------------------------
(* C5 *)

\* C5: the metrics of every cycle are the sums and counts over the sessions
\* and app events of that cycle alone.
C5_CycleMetrics ==
    Correlated =>
        LET a == Unwrap(analysis)
        IN  \A c \in 1..Len(a.cycles) :
              LET cy == a.cycles[c]
                  n == Len(cy.sessions)
                  total(field) ==
                      SumSeq([ k \in 1..n |-> UnwrapOr(cy.sessions[k].session[field], 0) ], 1)
              IN  /\ cy.metrics.total_seconds_read = total("seconds_read")
                  /\ cy.metrics.total_pages = total("pages_turned")
                  /\ cy.metrics.total_button_presses = total("button_press_count")
                  /\ cy.metrics.dictionary_lookups =
                        SumSeq([ k \in 1..n |-> Len(cy.sessions[k].dictionary) ], 1)
                  /\ cy.metrics.brightness_events =
                        SumSeq([ k \in 1..n |-> Len(cy.sessions[k].brightness) ], 1)
                          + SumSeq([ k \in 1..n |-> Len(cy.sessions[k].natural_light) ], 1)
                  /\ cy.metrics.app_starts =
                        Cardinality({ k \in 1..Len(cy.app_events) :
                                        cy.app_events[k].kind = "AppStart" })

\* With plug-ins at 10 and 40, the first cycle has no session and all-zero
\* reading totals, and the second has the 300 seconds of the session [40, 50].
C5_Witness ==
    /\ Correlated
    /\ Len(Unwrap(analysis).cycles) = 2
    /\ Unwrap(analysis).cycles[1].start = 10
    /\ Unwrap(analysis).cycles[1].metrics.total_seconds_read = 0
    /\ Unwrap(analysis).cycles[2].start = 40
    /\ Unwrap(analysis).cycles[2].metrics.total_seconds_read = 300
    /\ Unwrap(analysis).cycles[2].metrics.total_pages = 5
    /\ Unwrap(analysis).cycles[2].metrics.total_button_presses = 10

----------------------------------------------------------------------------
(* C11 *)

\* C11: in the value parse_correlated returns, the events of the log at a
\* time T that lies in the 30 s window of one or more sessions are all held
\* by the first such session of the list, and by no other session and not by
\* the orphans.
C11_FirstMatchWins ==
    Correlated =>
        LET a == Unwrap(analysis)
        IN  \A f \in AuxFields : \A k \in 1..Len(ScanEvents(f)) :
              LET T == ScanEvents(f)[k].timestamp
                  matching == { i \in 1..Len(a.sessions) :
                                  InWindow(a.sessions[i].session, T, 30) }
              IN  matching # { } =>
                    LET m == CHOOSE i \in matching : \A j \in matching : i <= j
                    IN  /\ CountAt(f, a.sessions[m][f], T)
                              = Cardinality({ j \in 1..Len(ScanEvents(f)) :
                                                ScanEvents(f)[j].timestamp = T })
                        /\ \A i \in 1..Len(a.sessions) :
                              i # m => CountAt(f, a.sessions[i][f], T) = 0
                        /\ CountAt(f, a.orphans[f], T) = 0

\* The brightness event at 125 lies in the windows of both sessions, and
\* inside [120, 130]: the first session holds it, the second holds nothing.
C11_Witness ==
    /\ Correlated
    /\ Len(Unwrap(analysis).sessions) = 2
    /\ InWindow(Unwrap(analysis).sessions[1].session, 125, 30)
    /\ InWindow(Unwrap(analysis).sessions[2].session, 125, 30)
    /\ CountAt("brightness", Unwrap(analysis).sessions[1].brightness, 125) = 1
    /\ Len(Unwrap(analysis).sessions[2].brightness) = 0

----------------------------------------------------------------------------
(* C12 *)

\* C12: in the value parse_correlated returns, every word of a session's
\* dictionary carries that session's id and every orphan word carries none.
C12_SessionIdStamp ==
    Correlated =>
        LET a == Unwrap(analysis)
        IN  /\ \A i \in 1..Len(a.sessions) : \A k \in 1..Len(a.sessions[i].dictionary) :
                  a.sessions[i].dictionary[k].session_id = Some(a.sessions[i].session.id)
            /\ \A k \in 1..Len(a.orphans.dictionary) :
                  a.orphans.dictionary[k].session_id = None

\* The second session holds the lookup at 150 under its own id, and the
\* lookup at 161 is an orphan.
C12_Witness ==
    /\ Correlated
    /\ Len(Unwrap(analysis).sessions) = 2
    /\ Len(Unwrap(analysis).sessions[2].dictionary) = 1
    /\ Unwrap(analysis).sessions[2].dictionary[1].term = DecimalText(150)
    /\ Unwrap(analysis).sessions[2].dictionary[1].session_id
            = Some(Unwrap(analysis).sessions[2].session.id)
    /\ Unwrap(analysis).sessions[1].session.id # Unwrap(analysis).sessions[2].session.id
    /\ Len(Unwrap(analysis).orphans.dictionary) = 1

----------------------------------------------------------------------------
(* C13 *)

\* The timestamps of the PluggedIn events the scan has read, in log order.
PlugTimestamps ==
    LET plugs == SelectSeq(app_events, LAMBDA e : e.kind = "PluggedIn")
    IN  [ k \in 1..Len(plugs) |-> plugs[k].timestamp ]

\* The times the cover of the cycles is probed at.
ProbeTimes == 0..50 \cup { 86399, 86400, 86401 }

\* C13: the value parse_correlated returns has one cycle per PluggedIn event
\* of the log, each plug-in time being the start of as many cycles as there
\* are plug-ins at that time; starts ascend; every cycle but the last ends
\* where the next starts and the last has no end; so every time from the
\* earliest plug-in on lies in exactly one cycle and every earlier time in none.
C13_ContiguousCycles ==
    Correlated =>
        LET cycles == Unwrap(analysis).cycles
            n == Len(cycles)
        IN  /\ n = Len(PlugTimestamps)
            /\ \A k \in 1..n :
                  Cardinality({ c \in 1..n : cycles[c].start = PlugTimestamps[k] })
                      = Cardinality({ j \in 1..n : PlugTimestamps[j] = PlugTimestamps[k] })
            /\ \A c \in 1..n :
                  IF c < n
                  THEN /\ cycles[c].start <= cycles[c + 1].start
                       /\ cycles[c].end = Some(cycles[c + 1].start)
                  ELSE cycles[c].end = None
            /\ n > 0 =>
                  \A t \in ProbeTimes :
                      Cardinality({ c \in 1..n : InCycle(cycles[c], t) })
                          = IF t >= cycles[1].start THEN 1 ELSE 0

\* The plug-ins were read in the order 45, 5, 40 and the cycles are
\* [5, 40), [40, 45) and [45, ...).
C13_Witness ==
    /\ Correlated
    /\ PlugTimestamps = << 45, 5, 40 >>
    /\ Len(Unwrap(analysis).cycles) = 3
    /\ Unwrap(analysis).cycles[1].start = 5
    /\ Unwrap(analysis).cycles[1].end = Some(40)
    /\ Unwrap(analysis).cycles[2].end = Some(45)
    /\ Unwrap(analysis).cycles[3].end = None

----------------------------------------------------------------------------
(* C14 *)

\* C14: when parse_correlated finishes a scan that read no PluggedIn event it
\* returns a result (not an error) whose cycles are empty and which still
\* holds every session, the orphans and the daily counts of all the AppStart
\* events read.
C14_NoPlugNoCycles ==
    [][ (pc = "scan" /\ pc' # "scan" /\ rows_read' = rows_read
            /\ entry = "parse_correlated" /\ PlugTimestamps = << >>) =>
                /\ pc' = "done"
                /\ IsSome(analysis')
                /\ Unwrap(analysis').cycles = << >>
                /\ Len(Unwrap(analysis').sessions) = Len(sessions_vec)
                /\ \A i \in 1..Len(sessions_vec) :
                      Unwrap(analysis').sessions[i].session.id = sessions_vec[i].id
                /\ Len(AllAppEvents(Unwrap(analysis'))) = Len(app_events)
                /\ LET counts == Unwrap(analysis').app_start_counts_by_day
                   IN  SumSeq([ k \in 1..Len(app_events) |->
                                  IF app_events[k].timestamp \div 86400 \in DOMAIN counts
                                  THEN 1 ELSE 0 ], 1) = Len(app_events) ]_vars

\* No plug-in was read: one session, one orphan app start, no cycle.
C14_Witness ==
    /\ Correlated
    /\ PlugTimestamps = << >>
    /\ Len(Unwrap(analysis).sessions) = 1
    /\ Len(Unwrap(analysis).sessions[1].app_events) = 1
    /\ Len(Unwrap(analysis).orphans.app_events) = 1
    /\ Unwrap(analysis).cycles = << >>

----------------------------------------------------------------------------
(* C15 *)

\* The cycles of the analysis a whose session list holds the session cs.
CyclesHolding(a, cs) ==
    { c \in 1..Len(a.cycles) : cs \in Range(a.cycles[c].sessions) }

\* C15: in the value parse_correlated returns, a session that starts at or
\* after the earliest plug-in is in the session list of exactly one cycle, a
\* session that starts earlier (or when there is no plug-in) is in none, and
\* the top-level list holds every session the scan emitted.
C15_AtMostOneCycle ==
    Correlated =>
        LET a == Unwrap(analysis)
        IN  /\ Len(a.sessions) = Len(sessions_vec)
            /\ \A i \in 1..Len(a.sessions) :
                  /\ a.sessions[i].session.id = sessions_vec[i].id
                  /\ Cardinality(CyclesHolding(a, a.sessions[i])) =
                        IF \E k \in 1..Len(PlugTimestamps) :
                              PlugTimestamps[k] <= a.sessions[i].session.time_start
                        THEN 1 ELSE 0

\* With plug-ins at 5 and 40 the session [40, 50] is in the second cycle only.
C15_Witness ==
    /\ Correlated
    /\ Len(Unwrap(analysis).cycles) = 2
    /\ Unwrap(analysis).cycles[1].start = 5
    /\ Unwrap(analysis).cycles[2].start = 40
    /\ Len(Unwrap(analysis).sessions) = 1
    /\ CyclesHolding(Unwrap(analysis), Unwrap(analysis).sessions[1]) = { 2 }

\* With the only plug-in at 45 the session [40, 50] is in no cycle, and still
\* in the top-level list.
C15_WitnessBefore ==
    /\ Correlated
    /\ Len(Unwrap(analysis).cycles) = 1
    /\ Unwrap(analysis).cycles[1].start = 45
    /\ Len(Unwrap(analysis).sessions) = 1
    /\ CyclesHolding(Unwrap(analysis), Unwrap(analysis).sessions[1]) = { }

----------------------------------------------------------------------------
(* C16 *)

\* The timestamps of the AppStart events the scan has read, in log order.
AppStartTimestamps ==
    LET starts == SelectSeq(app_events, LAMBDA e : e.kind = "AppStart")
    IN  [ k \in 1..Len(starts) |-> starts[k].timestamp ]

\* C16: in the value parse_correlated returns, app_start_counts_by_day has an
\* entry exactly for the days (of 86400 s, UTC) on which an AppStart event of
\* the log falls, its value is the number of those events, PluggedIn events
\* count for nothing, and the values add up to the number of AppStart events.
C16_DailyAppStarts ==
    Correlated =>
        LET counts == Unwrap(analysis).app_start_counts_by_day
            n == Len(AppStartTimestamps)
        IN  /\ DOMAIN counts = { AppStartTimestamps[k] \div 86400 : k \in 1..n }
            /\ \A d \in DOMAIN counts :
                  counts[d] = Cardinality({ k \in 1..n : AppStartTimestamps[k] \div 86400 = d })
            /\ SumSeq([ k \in 1..n |->
                          IF \A j \in 1..(k - 1) :
                                AppStartTimestamps[j] \div 86400 # AppStartTimestamps[k] \div 86400
                          THEN counts[AppStartTimestamps[k] \div 86400] ELSE 0 ], 1) = n

\* The app start at 45 is held by the session, the one at 86399 is an orphan,
\* both fall on day 0; the one at 86400 and the plug-in at 5 do not add to it.
C16_Witness ==
    /\ Correlated
    /\ Len(Unwrap(analysis).sessions) = 1
    /\ Len(Unwrap(analysis).sessions[1].app_events) = 1
    /\ Unwrap(analysis).sessions[1].app_events[1].kind = "AppStart"
    /\ Len(Unwrap(analysis).orphans.app_events) = 1
    /\ Unwrap(analysis).orphans.app_events[1].timestamp = 86399
    /\ Unwrap(analysis).app_start_counts_by_day = [ d \in { 0 } |-> 2 ]

----------------------------------------------------------------------------
(* C17 *)

\* The scan has read exactly the six rows of the scenario, each once.
ScenarioRead ==
    /\ rows_read = 6
    /\ errors = << >>
    /\ Len(sessions_vec) = 1
    /\ sessions_vec[1].time_start = 36000
    /\ sessions_vec[1].time_end = Some(36600)
    /\ sessions_vec[1].end_progress = Some(10)
    /\ [ k \in 1..Len(dictionary_events) |-> dictionary_events[k].timestamp ]
            = << 36120, 39600 >>
    /\ PlugTimestamps = << 35400 >>
    /\ AppStartTimestamps = << 36010 >>

C17_ScenarioResult ==
    LET a == Unwrap(analysis)
    IN  /\ Len(a.sessions) = 1
        /\ Len(a.sessions[1].dictionary) = 1
        /\ Len(a.sessions[1].app_events) = 1
        /\ Len(a.orphans.dictionary) = 1
        /\ Len(a.orphans.app_events) = 1
        /\ a.orphans.app_events[1].kind = "PluggedIn"
        /\ Len(a.cycles) = 1
        /\ a.cycles[1].metrics.total_seconds_read = 600
        /\ a.cycles[1].metrics.dictionary_lookups = 1
        /\ a.cycles[1].metrics.app_starts = 1

\* C17: in the value parse_correlated returns, the cycles are cut by every
\* PluggedIn event read and each cycle's app_starts counts every AppStart
\* event read whose time lies in it, whether a session holds the event or the
\* orphans do; and the end-to-end scenario gives the stated result.
C17_CyclesSeeAllAppEvents ==
    Correlated =>
        LET a == Unwrap(analysis)
        IN  /\ Len(a.cycles) = Len(PlugTimestamps)
            /\ \A c \in 1..Len(a.cycles) :
                  /\ \E k \in 1..Len(PlugTimestamps) : PlugTimestamps[k] = a.cycles[c].start
                  /\ a.cycles[c].metrics.app_starts =
                        Cardinality({ k \in 1..Len(AppStartTimestamps) :
                                        InCycle(a.cycles[c], AppStartTimestamps[k]) })
                  /\ Len(a.cycles[c].app_events) =
                        Cardinality({ k \in 1..Len(app_events) :
                                        InCycle(a.cycles[c], app_events[k].timestamp) })
            /\ ScenarioRead => C17_ScenarioResult

C17_Witness == Correlated /\ ScenarioRead /\ C17_ScenarioResult

----------------------------------------------------------------------------
(* C18 *)

\* C18: in the value parse_events returns, a field is present exactly under
\* the options that select it, and under AppStart (PluggedIn) app_events
\* holds AppStart (PluggedIn) events only.
C18_OptionSelectsFields ==
    (pc = "done" /\ entry = "parse_events") =>
        LET a == Unwrap(analysis)
        IN  /\ IsSome(a.sessions) <=> option \in { "All", "ReadingSessions" }
            /\ IsSome(a.terms) <=> option \in { "All", "DictionaryLookups" }
            /\ IsSome(a.brightness_history) <=> option \in { "All", "BrightnessHistory" }
            /\ IsSome(a.natural_light_history)
                  <=> option \in { "All", "NaturalLightHistory" }
            /\ IsSome(a.bookmarks) <=> option \in { "All", "Bookmarks" }
            /\ IsSome(a.app_events) <=> option \in { "All", "AppStart", "PluggedIn" }
            /\ IsSome(a.books) <=> option # "Bookmarks"
            /\ option \in { "AppStart", "PluggedIn" } =>
                  \A e \in Range(Unwrap(a.app_events)) : e.kind = option

\* Under PluggedIn two plug-in rows were read: app_events holds them and
\* books is present, the other fields are absent.
C18_Witness ==
    /\ pc = "done" /\ entry = "parse_events" /\ option = "PluggedIn"
    /\ rows_read = 2
    /\ Len(Unwrap(Unwrap(analysis).app_events)) = 2
    /\ IsSome(Unwrap(analysis).books)
    /\ IsNone(Unwrap(analysis).sessions)
    /\ IsNone(Unwrap(analysis).bookmarks)

----------------------------------------------------------------------------
(* C19 *)

\* The top-level reading sessions of the value returned, in order.
TopSessions ==
    IF IsNone(analysis) THEN << >>
    ELSE IF entry = "parse_correlated"
    THEN [ i \in 1..Len(Unwrap(analysis).sessions) |->
             Unwrap(analysis).sessions[i].session ]
    ELSE UnwrapOr(Unwrap(analysis).sessions, << >>)

\* The keys of the resolved book map: the queried volume ids the content
\* table has, and the titles of the books the events supplied.
ResolvedKeys ==
    (volume_ids_to_query \cap DOMAIN ContentTable) \cup DOMAIN books_from_events

\* The title of the resolved book under key v: event-supplied books win.
ResolvedTitle(v) ==
    IF v \in DOMAIN books_from_events THEN books_from_events[v] ELSE ContentTable[v]

C19_OpenKeepsEventTitle ==
    (ScanStep /\ Scanned.kind = "OpenContent" /\ RowDecodes(Scanned)) =>
        /\ Unwrap(current_session').book_title = Scanned.attributes.title
        /\ Unwrap(current_session').volume_id = Scanned.attributes.volumeid

C19_Backfill ==
    (pc = "scan" /\ pc' # "scan" /\ rows_read' = rows_read) =>
        /\ pc' = "done"
        /\ Len(TopSessions') = Len(sessions_vec)
        /\ \A i \in 1..Len(sessions_vec) :
              LET s == sessions_vec[i]
              IN  /\ TopSessions'[i].id = s.id
                  /\ TopSessions'[i].book_title =
                        IF IsSome(s.volume_id) /\ Unwrap(s.volume_id) \in ResolvedKeys
                        THEN Some(ResolvedTitle(Unwrap(s.volume_id)))
                        ELSE s.book_title

\* C19: a session takes the title and the volume id of its open row; when
\* the scan ends without error, a returned session whose volume id is a key
\* of the resolved book map has that book's title, and any other session,
\* one without a volume id included, has the title it had.
C19_TitleBackfill == [][C19_OpenKeepsEventTitle /\ C19_Backfill]_vars

\* A returned session of book1 has the content table's title in place of the
\* one its open row carried.
C19_Witness ==
    /\ pc = "done"
    /\ \E i \in 1..Len(TopSessions) :
          /\ TopSessions[i].volume_id = Some("book1")
          /\ sessions_vec[i].book_title = Some("Stale")
          /\ TopSessions[i].book_title = Some("Book One")

\* A returned session whose volume id book2 was not found has no title.
C19_WitnessNotFound ==
    /\ pc = "done"
    /\ \E i \in 1..Len(TopSessions) :
          /\ TopSessions[i].volume_id = Some("book2")
          /\ TopSessions[i].book_title = None

\* A returned session without a volume id keeps the title of its open row.
C19_WitnessEventTitle ==
    /\ pc = "done"
    /\ \E i \in 1..Len(TopSessions) :
          /\ TopSessions[i].volume_id = None
          /\ TopSessions[i].book_title = Some("Title")

----------------------------------------------------------------------------
(* C20 *)

InstallStep == db_calls' = db_calls + 1 /\ db_op' = "install"

RemoveStep == db_calls' = db_calls + 1 /\ db_op' = "remove"

C20_InstallExisting ==
    (InstallStep /\ trigger_exists(conn)) =>
        db_result' = "AlreadyExists" /\ trigger_exists(conn')

C20_RemoveMissing ==
    (RemoveStep /\ ~trigger_exists(conn)) =>
        db_result' = "NotFound" /\ ~trigger_exists(conn')

C20_SuccessIffChange ==
    (InstallStep \/ RemoveStep) =>
        (db_result' = "Ok" <=> trigger_exists(conn') # trigger_exists(conn))

\* C20: installing while the trigger is installed returns AlreadyExists and
\* leaves it installed; removing while none is installed returns NotFound and
\* leaves none; an install or remove call succeeds exactly when it changes
\* whether the trigger is installed.
C20_TriggerCalls ==
    [][C20_InstallExisting /\ C20_RemoveMissing /\ C20_SuccessIffChange]_vars

\* A second install has just been refused: the trigger is still installed.
C20_Witness ==
    /\ db_op = "install"
    /\ db_result = "AlreadyExists"
    /\ trigger_exists(conn)
    /\ db_calls >= 2

\* A remove has just been refused on a database without the trigger.
C20_WitnessNotFound ==
    /\ db_op = "remove"
    /\ db_result = "NotFound"
    /\ ~trigger_exists(conn)

----------------------------------------------------------------------------
(* C21 *)

DeleteStep == db_calls' = db_calls + 1 /\ db_op' = "delete"

InsertStep == db_calls' = db_calls + 1 /\ db_op' = "insert"

\* The trigger is installed exactly since the last successful install with
\* no successful remove after it.
C21_InstalledSinceInstall ==
    /\ (InstallStep /\ db_result' = "Ok") => trigger_exists(conn')
    /\ (RemoveStep /\ db_result' = "Ok") => ~trigger_exists(conn')
    /\ ~((InstallStep \/ RemoveStep) /\ db_result' = "Ok") =>
          trigger_exists(conn') = trigger_exists(conn)

C21_DeleteWithoutTrigger ==
    (DeleteStep /\ ~trigger_exists(conn)) =>
        /\ db_result' = "Ok"
        /\ conn'.AnalyticsEvents = conn.AnalyticsEvents \ db_arg'

C21_InsertNotBlocked ==
    InsertStep =>
        /\ db_result' = "Ok" <=> db_arg' \cap conn.AnalyticsEvents = { }
        /\ conn'.AnalyticsEvents = conn.AnalyticsEvents \cup db_arg'

\* The claim as stated: with the trigger installed every DELETE is rejected.
C21_EveryDeleteRejected ==
    (DeleteStep /\ trigger_exists(conn)) =>
        /\ db_result' = "Abort"
        /\ conn'.AnalyticsEvents = conn.AnalyticsEvents

\* C21 as stated: over any sequence of install, remove, insert and delete
\* calls, a DELETE is rejected and leaves the rows unchanged whenever the
\* trigger is installed, and succeeds whenever it is not; inserts are never
\* blocked by the trigger.
C21_AsStated ==
    [][/\ C21_InstalledSinceInstall
       /\ C21_EveryDeleteRejected
       /\ C21_DeleteWithoutTrigger
       /\ C21_InsertNotBlocked]_vars

\* With the trigger installed, a DELETE is rejected exactly when it matches a
\* row; either way the rows stay as they were.
C21_MatchingDeleteRejected ==
    (DeleteStep /\ trigger_exists(conn)) =>
        /\ db_result' = "Abort" <=> db_arg' \cap conn.AnalyticsEvents # { }
        /\ db_result' \in { "Abort", "Ok" }
        /\ conn'.AnalyticsEvents = conn.AnalyticsEvents

\* C21, amended: over any sequence of install, remove, insert and delete
\* calls, while the trigger is installed a DELETE that matches at least one
\* row is rejected, a DELETE that matches no row succeeds, and both leave the
\* rows unchanged; a DELETE succeeds whenever the trigger is not installed;
\* an insert is refused only for an Id the table already holds.
C21_DeleteBlocked ==
    [][/\ C21_InstalledSinceInstall
       /\ C21_MatchingDeleteRejected
       /\ C21_DeleteWithoutTrigger
       /\ C21_InsertNotBlocked]_vars

\* A DELETE matching a row has just been rejected under the trigger.
C21_Witness ==
    /\ db_op = "delete"
    /\ db_result = "Abort"
    /\ trigger_exists(conn)
    /\ db_arg \cap conn.AnalyticsEvents # { }

\* A DELETE matching no row has just succeeded under the trigger.
C21_WitnessNoMatch ==
    /\ db_op = "delete"
    /\ db_result = "Ok"
    /\ trigger_exists(conn)
    /\ db_calls = 2

----------------------------------------------------------------------------
(* C22 *)

\* The session s with the title t in place of its own.
WithTitle(s, t) == [ s EXCEPT !.book_title = t ]

\* A scan step that does not abort keeps every emitted session as it is, in
\* its place, and emits at most one more.
C22_ScanKeepsEmitted ==
    (ScanStep /\ pc' = "scan") =>
        /\ Len(sessions_vec') \in { Len(sessions_vec), Len(sessions_vec) + 1 }
        /\ SubSeq(sessions_vec', 1, Len(sessions_vec)) = sessions_vec

\* The end of the scan returns the emitted sessions with nothing but the
\* title changed, each wrapped with the four correlated collections only.
C22_FinishKeepsFields ==
    (pc = "scan" /\ pc' = "done") =>
        /\ Len(TopSessions') = Len(sessions_vec)
        /\ \A i \in 1..Len(sessions_vec) :
              WithTitle(TopSessions'[i], sessions_vec[i].book_title) = sessions_vec[i]
        /\ \A i \in 1..Len(OutputSessions') :
              \E j \in 1..Len(sessions_vec) :
                 WithTitle(OutputSessions'[i], sessions_vec[j].book_title) = sessions_vec[j]
        /\ entry = "parse_correlated" =>
              \A i \in 1..Len(Unwrap(analysis').sessions) :
                 DOMAIN Unwrap(analysis').sessions[i] =
                    { "session", "dictionary", "brightness", "natural_light", "app_events" }

\* C22: a session is emitted with the fields its open and leave rows set; no
\* later row of the scan changes an emitted session; the value returned holds
\* each emitted session with only book_title possibly changed, and the
\* correlation adds only the four collections around it.
C22_EmittedIsFrozen ==
    [][C1_LeaveStep /\ C22_ScanKeepsEmitted /\ C22_FinishKeepsFields]_vars

\* Two sessions were emitted and returned, rows followed the first one, its
\* title was back-filled and a lookup was correlated to it.
C22_Witness ==
    /\ pc = "done"
    /\ Len(TopSessions) = 2
    /\ sessions_vec[1].book_title = None
    /\ TopSessions[1].book_title = Some("Book One")
    /\ Len(Unwrap(analysis).sessions[1].dictionary) >= 1

----------------------------------------------------------------------------
(* C23 *)

\* Every ReadingSession the scan holds: the one in progress and the emitted.
HeldSessions ==
    (IF IsSome(current_session) THEN { Unwrap(current_session) } ELSE { })
        \cup { sessions_vec[i] : i \in 1..Len(sessions_vec) }

\* C23: every ReadingSession the scan holds, the in-progress one included,
\* has start_progress within [0, 100].
C23_StartProgressInRange ==
    \A s \in HeldSessions : 0 <= s.start_progress /\ s.start_progress <= 100

----------------------------------------------------------------------------
(* C24 *)

\* The progress attribute of the row r is not the text of a number.
ProgressNotNumeric(r) == IsNone(ParseU8(r.attributes.progress))

\* C24: an OpenContent or LeaveContent row whose progress attribute is not a
\* valid number neither opens nor completes a session, and the scan goes on
\* with the state it had.
C24_BadProgressSkipped ==
    [][(ScanStep /\ Scanned.kind \in { "OpenContent", "LeaveContent" }
          /\ RowDecodes(Scanned) /\ ProgressNotNumeric(Scanned)) =>
            /\ pc' = "scan"
            /\ current_session' = current_session
            /\ sessions_vec' = sessions_vec]_vars

----------------------------------------------------------------------------
(* C25 *)

\* C25: in the value parse_correlated returns, the events of the log at a
\* time T that lies inside [time_start, time_end] of exactly one session are
\* all held by that session, whatever other windows T falls in.
C25_ContainingSessionWins ==
    Correlated =>
        LET a == Unwrap(analysis)
        IN  \A f \in AuxFields : \A k \in 1..Len(ScanEvents(f)) :
              LET T == ScanEvents(f)[k].timestamp
                  holding == { i \in 1..Len(a.sessions) :
                                 InWindow(a.sessions[i].session, T, 0) }
              IN  Cardinality(holding) = 1 =>
                    \A i \in holding :
                       CountAt(f, a.sessions[i][f], T)
                          = Cardinality({ j \in 1..Len(ScanEvents(f)) :
                                            ScanEvents(f)[j].timestamp = T })

----------------------------------------------------------------------------
(* C26 *)

\* An OpenContent row becomes the session in progress, whatever was there.
C26_OpenIsCurrent ==
    (ScanStep /\ Scanned.kind = "OpenContent" /\ RowDecodes(Scanned)) =>
        /\ IsSome(current_session')
        /\ Unwrap(current_session').open_content_id = Scanned.id
        /\ sessions_vec' = sessions_vec

\* Between an open and the leave that completes it, no row takes the session
\* in progress away or changes it.
C26_KeepsCurrent ==
    (ScanStep /\ pc' = "scan" /\ Scanned.kind # "OpenContent"
        /\ sessions_vec' = sessions_vec /\ IsSome(current_session)) =>
            current_session' = current_session

\* A session is emitted only by a LeaveContent row, from the session in
\* progress, which it takes away.
C26_Emission ==
    (ScanStep /\ pc' = "scan" /\ sessions_vec' # sessions_vec) =>
        /\ Scanned.kind = "LeaveContent"
        /\ IsSome(current_session)
        /\ current_session' = None
        /\ Len(sessions_vec') = Len(sessions_vec) + 1
        /\ SubSeq(sessions_vec', 1, Len(sessions_vec)) = sessions_vec
        /\ LET e == sessions_vec'[Len(sessions_vec')]
           IN  /\ e.id = Unwrap(current_session).id
               /\ e.open_content_id = Unwrap(current_session).open_content_id
               /\ e.leave_content_id = Some(Scanned.id)

\* A LeaveContent row that directly follows the row that completed a session
\* is rejected.
C26_LeaveAfterLeave ==
    (ScanStep /\ Scanned.kind = "LeaveContent" /\ RowDecodes(Scanned)
        /\ Len(sessions_vec) > 0
        /\ sessions_vec[Len(sessions_vec)].leave_content_id = Some(rows_read)) =>
            /\ sessions_vec' = sessions_vec
            /\ current_session' = None
            /\ errors' = Append(errors, Scanned.id)

\* Row Ids are positions in the log: each emitted session's open row precedes
\* its leave row, which precedes the open row of the next emitted session and
\* of the session in progress; two rows are used up per emitted session.
C26_IdsInterleave ==
    /\ \A i \in 1..Len(sessions_vec) :
          /\ sessions_vec[i].open_content_id < Unwrap(sessions_vec[i].leave_content_id)
          /\ Unwrap(sessions_vec[i].leave_content_id) <= rows_read
          /\ i < Len(sessions_vec) =>
                Unwrap(sessions_vec[i].leave_content_id) < sessions_vec[i + 1].open_content_id
          /\ IsSome(current_session) =>
                Unwrap(sessions_vec[i].leave_content_id)
                    < Unwrap(current_session).open_content_id
    /\ 2 * Len(sessions_vec) <= rows_read

\* C26: an emitted session pairs a LeaveContent row with the most recent
\* OpenContent row before it, no completing LeaveContent lying between the
\* two; so no open id and no leave id is shared by two emitted sessions, a
\* LeaveContent right after a completing one is rejected, and the emitted
\* sessions are at most half the rows read.
C26_PairsMostRecentOpen ==
    [][/\ C26_OpenIsCurrent
       /\ C26_KeepsCurrent
       /\ C26_Emission
       /\ C26_LeaveAfterLeave
       /\ C26_IdsInterleave']_vars

\* Rows open, open, leave, leave, open, leave: the first leave completes the
\* second open, the second leave is rejected, and the third pairs rows 5, 6.
C26_Witness ==
    /\ rows_read = 6
    /\ Len(sessions_vec) = 2
    /\ sessions_vec[1].open_content_id = 2
    /\ sessions_vec[1].leave_content_id = Some(3)
    /\ errors = << 4 >>
    /\ sessions_vec[2].open_content_id = 5
    /\ sessions_vec[2].leave_content_id = Some(6)

----------------------------------------------------------------------------
(* C27 *)

\* The sessions of the list are in ascending time_start order and each ends
\* no later than the next one starts.
Chained(sessions) ==
    \A i \in 1..(Len(sessions) - 1) :
        /\ sessions[i].time_start <= sessions[i + 1].time_start
        /\ Unwrap(sessions[i].time_end) <= sessions[i + 1].time_start

\* C27: on a log in ascending timestamp order, the emitted sessions, during
\* the scan and in the value returned, are in ascending time_start order and
\* consecutive sessions do not overlap.
C27_SessionsChained == Chained(sessions_vec) /\ Chained(TopSessions)

\* Two sessions are returned, the second starting at the second the first
\* one ended.
C27_Witness ==
    /\ pc = "done"
    /\ Len(TopSessions) = 2
    /\ TopSessions[1].time_end = Some(TopSessions[2].time_start)
    /\ TopSessions[1].time_start < TopSessions[2].time_start

----------------------------------------------------------------------------
(* C28 *)

\* A lookup scanned by parse_events is counted under the id of the session
\* in progress, and under no id when there is none.
C28_StampedWithOpenSession ==
    [][(ScanStep /\ entry = "parse_events" /\ Scanned.kind = "DictionaryLookup"
          /\ RowDecodes(Scanned)) =>
            LET w == DictionaryWordNew(Scanned.attributes.word, Scanned.attributes.lang,
                       IF IsSome(current_session)
                       THEN Some(Unwrap(current_session).id) ELSE None)
            IN  /\ w \in DOMAIN terms_map'
                /\ terms_map'[w] = IF w \in DOMAIN terms_map THEN terms_map[w] + 1 ELSE 1]_vars

\* C28: in the value parse_events returns under option All, every term's
\* session_id is absent or the id of a session of the returned sessions.
C28_TermSessionsReturned ==
    (pc = "done" /\ entry = "parse_events" /\ option = "All") =>
        \A w \in DOMAIN Unwrap(Unwrap(analysis).terms) :
            IsNone(w.session_id) \/ Unwrap(w.session_id) \in SessionIds(TopSessions)

----------------------------------------------------------------------------
(* C29 *)

\* The session s without its freshly generated id.
NoId(s) == [ s EXCEPT !.id = 0 ]

\* parse_correlated has returned, after parse_events on the same table.
BothReturned == IsSome(first_result) /\ pc \in { "done", "failed" }

C29_WitnessFailed ==
    /\ BothReturned
    /\ pc = "failed"
    /\ Unwrap(first_result).failed
    /\ Len(events_log) = 3

----------------------------------------------------------------------------
(* C30 *)

\* The number of PluggedIn events at time T among the app events evs.
PlugsAt(evs, T) ==
    Cardinality({ k \in 1..Len(evs) : evs[k].kind = "PluggedIn" /\ evs[k].timestamp = T })

\* Every cycle holds a PluggedIn event at its own start.
C30_CycleHoldsItsPlug ==
    Correlated =>
        \A c \in 1..Len(Unwrap(analysis).cycles) :
            LET cy == Unwrap(analysis).cycles[c]
            IN  PlugsAt(cy.app_events, cy.start) >= 1

\* Every PluggedIn event of the log is held by exactly one cycle.
C30_PlugInOneCycle ==
    Correlated =>
        \A T \in Range(PlugTimestamps) :
            LET a == Unwrap(analysis)
                holding == { c \in 1..Len(a.cycles) : PlugsAt(a.cycles[c].app_events, T) > 0 }
            IN  /\ Cardinality(holding) = 1
                /\ \A c \in holding :
                      PlugsAt(a.cycles[c].app_events, T) = PlugsAt(app_events, T)

\* C30: every charge cycle's app_events holds at least one PluggedIn event at
\* the cycle's start, equal plug-in timestamps included, and every PluggedIn
\* event of the log is in exactly one cycle's app_events.
C30_PlugStartsCycle == C30_CycleHoldsItsPlug /\ C30_PlugInOneCycle

====
